---- MODULE Spec2Model ----
(***************************************************************************)
(* A model of the giganto ingestion engine.                                *)
(*                                                                         *)
(*  - handle_data (src/ingest.rs): one sub-stream dispatcher and its       *)
(*    interval-ack task, with the acknowledgement protocol (Spec,          *)
(*    SpecStream).                                                         *)
(*  - handle_connection and check_sources_conn (src/ingest.rs): the        *)
(*    sensor connections and the roster controller (SpecRoster).           *)
(*  - client_connection and server_connection (src/peer.rs): the peer      *)
(*    connections of two engines (SpecPeer).                               *)
(***************************************************************************)
EXTENDS Integers, Sequences, FiniteSets, Bags, TLC

(***************************************************************************)
(* Program constants (src/ingest.rs).                                      *)
(***************************************************************************)
ACK_ROTATION_CNT == 1024

CHANNEL_CLOSE_MESSAGE == "channel done"

CHANNEL_CLOSE_TIMESTAMP == -1

NO_TIMESTAMP == 0

U16Modulus == 65536

\* channel(100) of Server::run
SOURCE_CHANNEL_SIZE == 100

REPLAY_TOKEN == "reproduce"

\* const PEER_RETRY_INTERVAL: u64 = 5 (src/peer.rs)
PEER_RETRY_INTERVAL == 5

(***************************************************************************)
(* Bounds of the model.                                                    *)
(***************************************************************************)
\* data records carry a timestamp in 1..MaxTs
MaxTs == 2

\* at most MaxAcks ack frames are sent on the sub-stream
MaxAcks == 2

\* the sensor sends at most MaxRecords data records in a run of the model
MaxRecords == 1

\* sensor connections accepted in a run of the model
MaxConns == 2

\* the connections read Utc::now() while it is below MaxClock
MaxClock == 5

\* a client_connection task sees at most MaxDials failures of connect()
MaxDials == 2

\* the bytes of a timestamp in a key
TsBytes == 2

\* at most MaxStored records are appended to a column family
MaxStored == 2

\* at most MaxPackets packets are stored
MaxPackets == 3

\* at most MaxLogs generic-log records are stored
MaxLogs == 2

Timestamps == 1..MaxTs

Bodies == {CHANNEL_CLOSE_MESSAGE, "data"}

\* What receive_event finds on the recv stream: a record event, the end of the
\* stream (FinishedEarly), another read error, or nothing yet.
DataRecords == [kind : {"record"}, ts : Timestamps, body : Bodies]

SentinelRecord ==
    [kind |-> "record", ts |-> CHANNEL_CLOSE_TIMESTAMP, body |-> CHANNEL_CLOSE_MESSAGE]

NoFrame == [kind |-> "none", ts |-> NO_TIMESTAMP, body |-> ""]

FinFrame == [kind |-> "fin", ts |-> NO_TIMESTAMP, body |-> ""]

ResetFrame == [kind |-> "reset", ts |-> NO_TIMESTAMP, body |-> ""]

\* What becomes of a data record between its receipt and the counters.
RecordOutcomes == {"ok", "deserialize_err", "append_err", "publish_err"}

VARIABLES
    \* ---- handle_data: the dispatcher task
    dpc,              \* position of the dispatcher in handle_data
    cur,              \* `timestamp` of the record being processed (0: none)
    ack_cnt,          \* ack_cnt_rotation / ack_cnt_interval (AtomicU16)
    ack_time,         \* ack_time_rotation / ack_time_interval (AtomicI64)
    ack_time_notify,  \* the Notify permit stored by notify_one
    shutdown_signal,  \* the shared AtomicBool set by Server::run
    \* ---- handle_data: the interval task (`handler`)
    hpc,              \* position of the interval task
    h_ts,             \* its local `last_timestamp`
    handler_aborted,  \* handler.abort() has been called
    \* ---- what is observable on the sub-stream and in the store
    acks,             \* ack frames written to the send stream, in order
    received,         \* timestamps of the data records received
    written,          \* timestamps of the records appended to the store
    flushed,          \* timestamps of the records covered by a flush
    unacked,          \* written timestamps no non-sentinel ack has covered yet
    failure,          \* the error handle_data has returned, "none" without one
    at_shutdown,      \* whether the dispatcher ran when shutdown_signal was set, and
                      \* the store.flush() calls it has made since
    \* ---- the sensor
    wire,             \* the frame in flight on the recv stream
    sent,             \* data records the sensor has sent on the sub-stream
    stream_len,       \* data records the sensor sends before it stops
    \* ---- Server::run, handle_connection, check_sources_conn
    conn_st,          \* position of each handle_connection task
    conn_cert,        \* (agent, source) of each connection's certificate
    link,             \* the QUIC connection: "none", "open", "closed"
    dispatchers,      \* connections for which a handle_request task was spawned
    rx,               \* the SourceInfo channel, oldest event first
    packet_sources,   \* PacketSources: source -> connection
    sources,          \* Sources, the live roster: source -> last-seen
    source_store,     \* the persistent sources store: source -> last-seen
    notify_source,    \* the permit of the Notify shared with the peer layer
    has_notify,       \* notify_source is Some(..)
    ctrl_pc,          \* position of check_sources_conn
    ctrl_key,         \* its `source_key` while it processes a Disconnected
    stream_of,        \* the connection of the sub-stream handle_data serves (0: none)
    endpoint,         \* the server endpoint: "open", "closed"
    wait_shutdown,    \* the shutdown notification has been given
    now,              \* the clock read by Utc::now()
    \* ---- the peer layer of two engines (src/peer.rs)
    peer_list,        \* peer_list of each engine: the engines it knows
    peer_conn,        \* peer_conn of each engine: host name -> connection
    peer_sources,     \* peer_sources of each engine: peer -> its source list
    pconn,            \* each peer connection: "none", "open", "closed"
    ppc,              \* position of the client and server task of each connection
    req,              \* the init request sent on each connection
    resp,             \* the init response sent on each connection
    rcv,              \* the lists each task received in the exchange
    dial_queue,       \* the PeerInfo values sent to Peer::run and not yet received, each with its count
    config_peers,     \* the peer list of each engine's configuration document
    snap,             \* `data` of a connection task in update_to_new_peer_list
    updating,         \* recv_peer_list, recv_peer_info and is_change of a task in update_to_new_peer_list
    inbox,            \* the messages sent to a task and not yet accepted by it
    handlers,         \* the handle_request tasks of each engine that write the document
    write_err,        \* write_toml_file or insert_toml_peers has logged an error
    dials,            \* the calls of connect() each client_connection task has made
    dial_err,         \* the error of its last connect(), "none" without one
    slept,            \* the seconds it has slept since that error
    \* ---- the raw event store (src/storage.rs)
    conn_db,          \* the "conn" column family: key -> stored record
    packet_db,        \* the "packet" column family: key -> stored record
    ingested,         \* the records appended so far
    iter,             \* the Iter of a range scan and what it has yielded
    \* ---- storage.rs: the retention sweeper
    log_db,           \* the "log" column family: key -> stored record
    swept,            \* the last sweep: its cutoff and the families before it
    \* ---- handle_data: what becomes of the records of a sub-stream
    sub,              \* raw_event_kind and source of the sub-stream
    cf_db,            \* the column family of the sub-stream: key -> stored body
    bus,              \* the messages sent on the direct-stream bus, in order
    handled,          \* the records taken so far: what came, what was stored, the outcome
    \* ---- handle_data: the send stream shared by the dispatcher and the interval task
    send_lock,        \* the task that holds the Mutex<SendStream>, "free" without one
    writer,           \* where each task is in sending an ack frame
    frame_out         \* the parts of ack frames written to the send stream, in order

ingestVars == <<dpc, cur, ack_cnt, ack_time, ack_time_notify, shutdown_signal,
                hpc, h_ts, handler_aborted, acks, received, written, flushed, unacked,
                at_shutdown, failure>>

sensorVars == <<wire, sent, stream_len>>

rosterVars == <<conn_st, conn_cert, link, dispatchers, rx, packet_sources, sources,
                source_store, notify_source, has_notify, ctrl_pc, ctrl_key, stream_of,
                endpoint, wait_shutdown, now>>

gossipVars == <<dial_queue, config_peers, snap, updating, inbox, handlers, write_err>>

dialVars == <<dials, dial_err, slept>>

peerVars == <<peer_list, peer_conn, peer_sources, pconn, ppc, req, resp, rcv, gossipVars,
              dialVars>>

retainVars == <<log_db, swept>>

kindVars == <<sub, cf_db, bus, handled>>

frameVars == <<send_lock, writer, frame_out>>

storeVars == <<conn_db, packet_db, ingested, iter, retainVars, kindVars>>

\* the state of the engine outside handle_data
outsideIngest == <<rosterVars, peerVars, storeVars, frameVars>>

\* the state of the engine outside the peer layer
outsidePeer == <<ingestVars, sensorVars, rosterVars, storeVars, frameVars>>

\* the state of the engine outside the store
outsideStore == <<ingestVars, sensorVars, rosterVars, peerVars, frameVars>>

vars == <<ingestVars, sensorVars, rosterVars, peerVars, storeVars, frameVars>>

\* if (timestamp == CHANNEL_CLOSE_TIMESTAMP) && (raw_event == CHANNEL_CLOSE_MESSAGE)
IsSentinel(r) == r.ts = CHANNEL_CLOSE_TIMESTAMP /\ r.body = CHANNEL_CLOSE_MESSAGE

\* A cumulative ack of t covers the written records stamped at or before t.
Covered(set, t) == {x \in set : x > t}

\* handler.abort(): a task suspended in its select is cancelled at once; a task
\* that is running goes on until it next suspends.
AbortedPc(pc) == IF pc = "select" THEN "cancelled" ELSE pc

\* a task that sends no ack frame
Idle == [pc |-> "idle", ts |-> 0, part |-> 0]

\* let sender_rotation = Arc::new(Mutex::new(send)), and nothing written
InitSendStream ==
    /\ send_lock = "free"
    /\ writer = [t \in {"dispatcher", "handler"} |-> Idle]
    /\ frame_out = <<>>

\* The state in which handle_data enters its loop (lines 736-781).
InitIngest ==
    /\ dpc = "recv"
    /\ cur = NO_TIMESTAMP
    /\ ack_cnt = 0
    /\ ack_time = NO_TIMESTAMP
    /\ ack_time_notify = FALSE
    /\ shutdown_signal = FALSE
    /\ hpc = "select"
    /\ h_ts = NO_TIMESTAMP
    /\ handler_aborted = FALSE
    /\ acks = <<>>
    /\ received = {}
    /\ written = {}
    /\ flushed = {}
    /\ at_shutdown = [running |-> FALSE, flushes |-> 0]
    /\ failure = "none"
    /\ InitSendStream
    /\ unacked = {}
    /\ wire = NoFrame
    /\ sent = 0

\* A sub-stream on which NearRotation records, all of one timestamp, were
\* written and counted while no interval elapsed: a state SpecStream reaches
\* after that many records.
NearRotation == ACK_ROTATION_CNT - 1

InitNearRotation ==
    /\ dpc = "recv"
    /\ cur = NO_TIMESTAMP
    /\ ack_cnt = NearRotation
    /\ ack_time \in Timestamps
    /\ ack_time_notify = FALSE
    /\ shutdown_signal = FALSE
    /\ hpc = "select"
    /\ h_ts = NO_TIMESTAMP
    /\ handler_aborted = FALSE
    /\ acks = <<>>
    /\ written = {ack_time}
    /\ received = written
    /\ flushed = {}
    /\ at_shutdown = [running |-> FALSE, flushes |-> 0]
    /\ failure = "none"
    /\ InitSendStream
    /\ unacked = written
    /\ wire = NoFrame
    /\ sent = NearRotation

(***************************************************************************)
(* The sensor's end of the sub-stream. A frame is in flight only while the *)
(* dispatcher is there to read it.                                         *)
(***************************************************************************)
Reading == dpc \notin {"ok", "err"}

\* n calls of store.flush(), counted once shutdown_signal is set
Flushes(n) == [at_shutdown EXCEPT !.flushes = IF shutdown_signal THEN @ + n ELSE @]

SensorSend(r) ==
    /\ Reading
    /\ wire = NoFrame
    /\ sent < stream_len
    /\ wire' = r
    /\ sent' = sent + 1
    /\ UNCHANGED <<ingestVars, stream_len, outsideIngest>>

SensorSentinel ==
    /\ Reading
    /\ wire = NoFrame
    /\ wire' = SentinelRecord
    /\ UNCHANGED <<ingestVars, sent, stream_len, outsideIngest>>

\* The sensor finishes the stream.
SensorFinish ==
    /\ Reading
    /\ wire = NoFrame
    /\ wire' = FinFrame
    /\ UNCHANGED <<ingestVars, sent, stream_len, outsideIngest>>

\* The stream or its connection breaks.
SensorReset ==
    /\ Reading
    /\ wire = NoFrame
    /\ wire' = ResetFrame
    /\ UNCHANGED <<ingestVars, sent, stream_len, outsideIngest>>

(***************************************************************************)
(* The dispatcher loop of handle_data.                                     *)
(***************************************************************************)

\* RecvSentinel with the sentinel passed through the rotation counter.
RecvSentinelCounted(sendOk) ==
    /\ dpc = "recv"
    /\ wire.kind = "record"
    /\ IsSentinel(wire)
    /\ wire' = NoFrame
    /\ Len(acks) < MaxAcks
    /\ ack_cnt' = (ack_cnt + 1) % U16Modulus
    /\ IF sendOk
       THEN /\ acks' = Append(acks, wire.ts)
            /\ dpc' = "recv"
            /\ UNCHANGED failure
       ELSE /\ dpc' = "err"
            /\ failure' = "send"
            /\ UNCHANGED acks
    /\ UNCHANGED <<cur, ack_time, ack_time_notify, shutdown_signal,
                   hpc, h_ts, handler_aborted, received, written, flushed, at_shutdown, unacked,
                   sent, stream_len, outsideIngest>>

\* The sentinel: an immediate ack of its timestamp, then `continue`.
RecvSentinel(sendOk) ==
    /\ dpc = "recv"
    /\ wire.kind = "record"
    /\ IsSentinel(wire)
    /\ wire' = NoFrame
    /\ Len(acks) < MaxAcks
    /\ IF sendOk
       THEN /\ acks' = Append(acks, wire.ts)
            /\ dpc' = "recv"
            /\ UNCHANGED failure
       ELSE /\ dpc' = "err"
            /\ failure' = "send"
            /\ UNCHANGED acks
    /\ UNCHANGED <<cur, ack_cnt, ack_time, ack_time_notify, shutdown_signal,
                   hpc, h_ts, handler_aborted, received, written, flushed, at_shutdown, unacked,
                   sent, stream_len, outsideIngest>>

\* A data record: key composition (with deserialisation for some kinds),
\* store.append, send_direct_stream; each `?` returns the error at once.
RecvRecord(outcome) ==
    /\ dpc = "recv"
    /\ wire.kind = "record"
    /\ ~IsSentinel(wire)
    /\ wire' = NoFrame
    /\ received' = received \cup {wire.ts}
    /\ CASE outcome = "ok" ->
              /\ written' = written \cup {wire.ts}
              /\ unacked' = unacked \cup {wire.ts}
              /\ cur' = wire.ts
              /\ dpc' = "add"
              /\ UNCHANGED failure
         [] outcome = "publish_err" ->
              /\ written' = written \cup {wire.ts}
              /\ unacked' = unacked \cup {wire.ts}
              /\ dpc' = "err"
              /\ failure' = "publish"
              /\ UNCHANGED cur
         [] OTHER ->
              /\ dpc' = "err"
              /\ failure' = IF outcome = "append_err" THEN "storage" ELSE "deserialize"
              /\ UNCHANGED <<written, unacked, cur>>
    /\ UNCHANGED <<ack_cnt, ack_time, ack_time_notify, shutdown_signal,
                   hpc, h_ts, handler_aborted, acks, flushed, at_shutdown,
                   sent, stream_len, outsideIngest>>

\* Err(FinishedEarly): handler.abort(); break; store.flush()?
RecvFinished(flushOk) ==
    /\ dpc = "recv"
    /\ wire = FinFrame
    /\ handler_aborted' = TRUE
    /\ hpc' = AbortedPc(hpc)
    /\ IF flushOk
       THEN flushed' = written /\ dpc' = "ok" /\ UNCHANGED failure
       ELSE dpc' = "err" /\ failure' = "storage" /\ UNCHANGED flushed
    /\ at_shutdown' = Flushes(1)
    /\ UNCHANGED <<cur, ack_cnt, ack_time, ack_time_notify, shutdown_signal,
                   h_ts, acks, received, written, unacked,
                   sensorVars, outsideIngest>>

\* Err(e): store.flush()?; handler.abort(); bail!
RecvError(flushOk) ==
    /\ dpc = "recv"
    /\ wire = ResetFrame
    /\ dpc' = "err"
    /\ IF flushOk
       THEN /\ flushed' = written
            /\ handler_aborted' = TRUE
            /\ hpc' = AbortedPc(hpc)
            /\ failure' = "recv"
       ELSE /\ failure' = "storage"
            /\ UNCHANGED <<flushed, handler_aborted, hpc>>
    /\ at_shutdown' = Flushes(1)
    /\ UNCHANGED <<cur, ack_cnt, ack_time, ack_time_notify, shutdown_signal,
                   h_ts, acks, received, written, unacked,
                   sensorVars, outsideIngest>>

\* ack_cnt_rotation.fetch_add(1)
CountRecord ==
    /\ dpc = "add"
    /\ ack_cnt' = (ack_cnt + 1) % U16Modulus
    /\ dpc' = "store"
    /\ UNCHANGED <<cur, ack_time, ack_time_notify, shutdown_signal,
                   hpc, h_ts, handler_aborted, acks, received, written, flushed, at_shutdown, failure, unacked,
                   sensorVars, outsideIngest>>

\* ack_time_rotation.store(timestamp)
StoreTime ==
    /\ dpc = "store"
    /\ ack_time' = cur
    /\ dpc' = "check"
    /\ UNCHANGED <<cur, ack_cnt, ack_time_notify, shutdown_signal,
                   hpc, h_ts, handler_aborted, acks, received, written, flushed, at_shutdown, failure, unacked,
                   sensorVars, outsideIngest>>

\* if shutdown_signal.load() { store.flush()?; handler.abort(); break; }
\* followed by the store.flush()? after the loop, which may fail in its turn.
ShutdownCheck(flushOk) ==
    IF shutdown_signal
    THEN IF flushOk
         THEN /\ flushed' = written
              /\ handler_aborted' = TRUE
              /\ hpc' = AbortedPc(hpc)
              /\ dpc' \in {"ok", "err"}
              /\ failure' = IF dpc' = "err" THEN "storage" ELSE failure
              /\ cur' = NO_TIMESTAMP
              /\ at_shutdown' = Flushes(2)
         ELSE /\ dpc' = "err"
              /\ failure' = "storage"
              /\ at_shutdown' = Flushes(1)
              /\ UNCHANGED <<flushed, handler_aborted, hpc, cur>>
    ELSE /\ dpc' = "recv"
         /\ cur' = NO_TIMESTAMP
         /\ UNCHANGED <<flushed, handler_aborted, hpc, at_shutdown, failure>>

\* RotationDue with < for <=.
RotationDueOffByOne(cnt) == ACK_ROTATION_CNT < cnt

\* The rotation condition.
RotationDue(cnt) == ACK_ROTATION_CNT <= cnt

\* if ACK_ROTATION_CNT <= ack_cnt_rotation.load() { ... }, and with the
\* condition false the shutdown check that ends the iteration.
CheckRotation(flushOk) ==
    /\ dpc = "check"
    /\ IF RotationDue(ack_cnt)
       THEN /\ dpc' = "rot_send"
            /\ UNCHANGED <<flushed, handler_aborted, hpc, cur, at_shutdown, failure>>
       ELSE ShutdownCheck(flushOk)
    /\ UNCHANGED <<ack_cnt, ack_time, ack_time_notify, shutdown_signal,
                   h_ts, acks, received, written, unacked,
                   sensorVars, outsideIngest>>

\* RotationAck with the timestamp after that of the record.
RotationAckAhead == cur + 1

\* The timestamp the rotation trigger acknowledges.
RotationAck == cur

\* send_ack_timestamp(&mut *sender_rotation.lock().await, timestamp).await?
RotSend(sendOk) ==
    /\ dpc = "rot_send"
    /\ Len(acks) < MaxAcks
    /\ IF sendOk
       THEN /\ acks' = Append(acks, RotationAck)
            /\ unacked' = Covered(unacked, RotationAck)
            /\ dpc' = "rot_reset"
            /\ UNCHANGED failure
       ELSE /\ dpc' = "err"
            /\ failure' = "send"
            /\ UNCHANGED <<acks, unacked>>
    /\ UNCHANGED <<cur, ack_cnt, ack_time, ack_time_notify, shutdown_signal,
                   hpc, h_ts, handler_aborted, received, written, flushed, at_shutdown,
                   sensorVars, outsideIngest>>

\* RotReset without the store.
RotResetSkipped ==
    /\ dpc = "rot_reset"
    /\ dpc' = "rot_notify"
    /\ UNCHANGED <<cur, ack_cnt, ack_time, ack_time_notify, shutdown_signal,
                   hpc, h_ts, handler_aborted, acks, received, written, flushed, at_shutdown, failure, unacked,
                   sensorVars, outsideIngest>>

\* ack_cnt_rotation.store(0)
RotReset ==
    /\ dpc = "rot_reset"
    /\ ack_cnt' = 0
    /\ dpc' = "rot_notify"
    /\ UNCHANGED <<cur, ack_time, ack_time_notify, shutdown_signal,
                   hpc, h_ts, handler_aborted, acks, received, written, flushed, at_shutdown, failure, unacked,
                   sensorVars, outsideIngest>>

\* ack_time_notify.notify_one()
RotNotify ==
    /\ dpc = "rot_notify"
    /\ ack_time_notify' = TRUE
    /\ dpc' = "rot_flush"
    /\ UNCHANGED <<cur, ack_cnt, ack_time, shutdown_signal,
                   hpc, h_ts, handler_aborted, acks, received, written, flushed, at_shutdown, failure, unacked,
                   sensorVars, outsideIngest>>

\* store.flush()? of the rotation, then the shutdown check of the iteration:
\* its store.flush()? may fail before handler.abort(), and the store.flush()?
\* after the loop may fail in its turn.
RotFlush(flushOk) ==
    /\ dpc = "rot_flush"
    /\ IF flushOk
       THEN /\ flushed' = written
            /\ IF shutdown_signal
               THEN \/ /\ handler_aborted' = TRUE
                       /\ hpc' = AbortedPc(hpc)
                       /\ dpc' \in {"ok", "err"}
                       /\ failure' = IF dpc' = "err" THEN "storage" ELSE failure
                       /\ at_shutdown' = Flushes(3)
                    \/ /\ dpc' = "err"
                       /\ failure' = "storage"
                       /\ at_shutdown' = Flushes(2)
                       /\ UNCHANGED <<handler_aborted, hpc>>
               ELSE /\ dpc' = "recv"
                    /\ UNCHANGED <<handler_aborted, hpc, at_shutdown, failure>>
            /\ cur' = NO_TIMESTAMP
       ELSE /\ dpc' = "err"
            /\ failure' = "storage"
            /\ at_shutdown' = Flushes(1)
            /\ UNCHANGED <<flushed, handler_aborted, hpc, cur>>
    /\ UNCHANGED <<ack_cnt, ack_time, ack_time_notify, shutdown_signal,
                   h_ts, acks, received, written, unacked,
                   sensorVars, outsideIngest>>

(***************************************************************************)
(* The interval task spawned by handle_data.                               *)
(***************************************************************************)

\* TickAcks without the NO_TIMESTAMP test.
TickAcksAlways(ts) == TRUE

\* What a tick does with the timestamp it loaded.
TickAcks(ts) == ts # NO_TIMESTAMP

\* _ = itv.tick() => { let last_timestamp = ack_time_interval.load(); if ... }
HandlerTick ==
    /\ hpc = "select"
    /\ IF TickAcks(ack_time)
       THEN hpc' = "loaded" /\ h_ts' = ack_time
       ELSE UNCHANGED <<hpc, h_ts>>
    /\ UNCHANGED <<dpc, cur, ack_cnt, ack_time, ack_time_notify, shutdown_signal,
                   handler_aborted, acks, received, written, flushed, at_shutdown, failure, unacked,
                   sensorVars, outsideIngest>>

\* send_ack_timestamp(&mut *sender_interval.lock().await, last_timestamp);
\* an error ends the task (break).
HandlerSend(sendOk) ==
    /\ hpc = "loaded"
    /\ Len(acks) < MaxAcks
    /\ IF sendOk
       THEN /\ acks' = Append(acks, h_ts)
            /\ unacked' = Covered(unacked, h_ts)
            /\ hpc' = "acked"
       ELSE /\ hpc' = "broken"
            /\ UNCHANGED <<acks, unacked>>
    /\ UNCHANGED <<dpc, cur, ack_cnt, ack_time, ack_time_notify, shutdown_signal,
                   h_ts, handler_aborted, received, written, flushed, at_shutdown, failure,
                   sensorVars, outsideIngest>>

\* ack_cnt_interval.store(0), and back to the select.
HandlerReset ==
    /\ hpc = "acked"
    /\ ack_cnt' = 0
    /\ h_ts' = NO_TIMESTAMP
    /\ hpc' = IF handler_aborted THEN "cancelled" ELSE "select"
    /\ UNCHANGED <<dpc, cur, ack_time, ack_time_notify, shutdown_signal,
                   handler_aborted, acks, received, written, flushed, at_shutdown, failure, unacked,
                   sensorVars, outsideIngest>>

\* () = ack_time_notified.notified() => itv.reset()
HandlerNotified ==
    /\ hpc = "select"
    /\ ack_time_notify
    /\ ack_time_notify' = FALSE
    /\ UNCHANGED <<dpc, cur, ack_cnt, ack_time, shutdown_signal,
                   hpc, h_ts, handler_aborted, acks, received, written, flushed, at_shutdown, failure, unacked,
                   sensorVars, outsideIngest>>

\* The aborted task is dropped where it waits for the send stream.
HandlerCancelled ==
    /\ hpc = "loaded"
    /\ handler_aborted
    /\ hpc' = "cancelled"
    /\ h_ts' = NO_TIMESTAMP
    /\ UNCHANGED <<dpc, cur, ack_cnt, ack_time, ack_time_notify, shutdown_signal,
                   handler_aborted, acks, received, written, flushed, at_shutdown, failure, unacked,
                   sensorVars, outsideIngest>>

\* Server::run, () = wait_shutdown.notified(): shutdown_signal.store(true),
\* and the notification is the one the connection loops wait for.
SetShutdown ==
    /\ ~shutdown_signal
    /\ shutdown_signal' = TRUE
    /\ wait_shutdown' = TRUE
    /\ at_shutdown' = [at_shutdown EXCEPT !.running = Reading]
    /\ UNCHANGED <<dpc, cur, ack_cnt, ack_time, ack_time_notify,
                   hpc, h_ts, handler_aborted, acks, received, written, flushed, unacked, failure,
                   sensorVars, peerVars, storeVars, frameVars, conn_st, conn_cert, link, dispatchers,
                   rx, packet_sources, sources, source_store, notify_source, has_notify,
                   ctrl_pc, ctrl_key, stream_of, endpoint, now>>

\* Server::run after the sleep: endpoint.close(0, &[]) closes every connection
\* of the endpoint.
EndpointClose ==
    /\ shutdown_signal
    /\ endpoint = "open"
    /\ endpoint' = "closed"
    /\ link' = [c \in DOMAIN link |-> IF link[c] = "open" THEN "closed" ELSE link[c]]
    /\ UNCHANGED <<ingestVars, sensorVars, peerVars, storeVars, frameVars, conn_st, conn_cert, dispatchers, rx,
                   packet_sources, sources, source_store, notify_source, has_notify,
                   ctrl_pc, ctrl_key, stream_of, wait_shutdown, now>>

(***************************************************************************)
(* Sensor connections and the roster controller.                           *)
(***************************************************************************)
ConnIds == 1..MaxConns

Sensors == {"src 1", "src 2"}

\* agent names, as the sequence of their parts
Agents == {<<"piglet">>, <<"hog", REPLAY_TOKEN, "1">>}

EmptyMap == [k \in {} |-> 0]

Put(m, k, v) == [x \in DOMAIN m \cup {k} |-> IF x = k THEN v ELSE m[x]]

Remove(m, k) == [x \in DOMAIN m \ {k} |-> m[x]]

NoCert == [agent |-> <<>>, source |-> ""]

\* IsReplay with equality for containment.
IsReplayExact(agent) == agent = <<REPLAY_TOKEN>>

\* let rep = agent.contains("reproduce")
IsReplay(agent) == \E i \in DOMAIN agent : agent[i] = REPLAY_TOKEN

\* (source, Utc::now(), ConnState, rep)
SourceInfo(source, ts, state, rep) ==
    [source |-> source, ts |-> ts, state |-> state, rep |-> rep]

\* The engine before any sensor has connected.
InitRoster ==
    /\ conn_st = [c \in ConnIds |-> "new"]
    /\ conn_cert = [c \in ConnIds |-> NoCert]
    /\ link = [c \in ConnIds |-> "none"]
    /\ dispatchers = {}
    /\ stream_of = 0
    /\ endpoint = "open"
    /\ rx = <<>>
    /\ ctrl_pc = "idle"
    /\ ctrl_key = ""
    /\ packet_sources = EmptyMap
    /\ sources = EmptyMap
    /\ source_store = EmptyMap
    /\ notify_source = FALSE
    /\ has_notify \in BOOLEAN
    /\ wait_shutdown = FALSE
    /\ now = 1

\* The engine outside handle_data when a sub-stream is being served: sensor
\* "src 1" has connected as connection 1, its Connected event was processed at
\* time 1, and it has opened the sub-stream.
InitOutside ==
    /\ conn_st = [c \in ConnIds |-> IF c = 1 THEN "serving" ELSE "new"]
    /\ conn_cert = [c \in ConnIds |->
                      IF c = 1 THEN [agent |-> <<"piglet">>, source |-> "src 1"]
                      ELSE NoCert]
    /\ link = [c \in ConnIds |-> IF c = 1 THEN "open" ELSE "none"]
    /\ dispatchers = {1}
    /\ stream_of = 1
    /\ endpoint = "open"
    /\ rx = <<>>
    /\ ctrl_pc = "idle"
    /\ ctrl_key = ""
    /\ packet_sources = Put(EmptyMap, "src 1", 1)
    /\ sources = Put(EmptyMap, "src 1", 1)
    /\ source_store = Put(EmptyMap, "src 1", 1)
    /\ notify_source = FALSE
    /\ has_notify = TRUE
    /\ wait_shutdown = FALSE
    /\ now = 2

\* handle_connection up to the packet_sources insert: conn.await, the version
\* handshake, certificate_info; an incompatible version or a certificate that
\* cannot be read ends the task with the connection closed.
ConnAccept(c, agent, source, compatible) ==
    /\ endpoint = "open"
    /\ conn_st[c] = "new"
    /\ \A d \in ConnIds : d < c => conn_st[d] # "new"
    /\ IF compatible
       THEN /\ conn_st' = [conn_st EXCEPT ![c] = "accepted"]
            /\ conn_cert' = [conn_cert EXCEPT ![c] = [agent |-> agent, source |-> source]]
            /\ link' = [link EXCEPT ![c] = "open"]
            /\ packet_sources' = IF IsReplay(agent) THEN packet_sources
                                 ELSE Put(packet_sources, source, c)
       ELSE /\ conn_st' = [conn_st EXCEPT ![c] = "done"]
            /\ link' = [link EXCEPT ![c] = "closed"]
            /\ UNCHANGED <<conn_cert, packet_sources>>
    /\ UNCHANGED <<ingestVars, sensorVars, peerVars, storeVars, frameVars, dispatchers, rx, sources, source_store,
                   notify_source, has_notify, ctrl_pc, ctrl_key, stream_of, endpoint,
                   wait_shutdown, now>>

\* sender.send((source.clone(), Utc::now(), ConnState::Connected, rep)).await
ConnSendConnected(c) ==
    /\ conn_st[c] = "accepted"
    /\ Len(rx) < SOURCE_CHANNEL_SIZE
    /\ now < MaxClock
    /\ rx' = Append(rx, SourceInfo(conn_cert[c].source, now, "Connected",
                                   IsReplay(conn_cert[c].agent)))
    /\ now' = now + 1
    /\ conn_st' = [conn_st EXCEPT ![c] = "serving"]
    /\ UNCHANGED <<ingestVars, sensorVars, peerVars, storeVars, frameVars, conn_cert, link, dispatchers,
                   packet_sources, sources, source_store, notify_source, has_notify,
                   ctrl_pc, ctrl_key, stream_of, endpoint, wait_shutdown>>

\* stream = connection.accept_bi() => Ok(s): tokio::spawn(handle_request(..))
ConnAcceptStream(c) ==
    /\ conn_st[c] = "serving"
    /\ link[c] = "open"
    /\ c \notin dispatchers
    /\ dispatchers' = dispatchers \cup {c}
    /\ stream_of' = IF stream_of = 0 THEN c ELSE stream_of
    /\ UNCHANGED <<ingestVars, sensorVars, peerVars, storeVars, frameVars, conn_st, conn_cert, link, rx,
                   packet_sources, sources, source_store, notify_source, has_notify,
                   ctrl_pc, ctrl_key, endpoint, wait_shutdown, now>>

\* The sensor closes the connection, or the connection is lost.
RemoteClose(c) ==
    /\ link[c] = "open"
    /\ link' = [link EXCEPT ![c] = "closed"]
    /\ UNCHANGED <<ingestVars, sensorVars, peerVars, storeVars, frameVars, conn_st, conn_cert, dispatchers, rx,
                   packet_sources, sources, source_store, notify_source, has_notify,
                   ctrl_pc, ctrl_key, stream_of, endpoint, wait_shutdown, now>>

\* stream = connection.accept_bi() => Err(conn_err):
\* sender.send((source, Utc::now(), ConnState::Disconnected, rep)).await; return
ConnDisconnected(c) ==
    /\ conn_st[c] = "serving"
    /\ link[c] = "closed"
    /\ Len(rx) < SOURCE_CHANNEL_SIZE
    /\ now < MaxClock
    /\ rx' = Append(rx, SourceInfo(conn_cert[c].source, now, "Disconnected",
                                   IsReplay(conn_cert[c].agent)))
    /\ now' = now + 1
    /\ conn_st' = [conn_st EXCEPT ![c] = "done"]
    /\ UNCHANGED <<ingestVars, sensorVars, peerVars, storeVars, frameVars, conn_cert, link, dispatchers,
                   packet_sources, sources, source_store, notify_source, has_notify,
                   ctrl_pc, ctrl_key, stream_of, endpoint, wait_shutdown>>

\* () = wait_shutdown.notified() => sleep; connection.close(0, &[]); return Ok(())
ConnShutdown(c) ==
    /\ conn_st[c] = "serving"
    /\ wait_shutdown
    /\ conn_st' = [conn_st EXCEPT ![c] = "done"]
    /\ link' = [link EXCEPT ![c] = "closed"]
    /\ UNCHANGED <<ingestVars, sensorVars, peerVars, storeVars, frameVars, conn_cert, dispatchers, rx,
                   packet_sources, sources, source_store, notify_source, has_notify,
                   ctrl_pc, ctrl_key, stream_of, endpoint, wait_shutdown, now>>

(***************************************************************************)
(* check_sources_conn, the roster controller.                              *)
(***************************************************************************)

\* source_store.insert(&source_key, timestamp); a failure is logged only
StoreInsert(store, key, ts, storeOk) == IF storeOk THEN Put(store, key, ts) ELSE store

\* if let Some(ref notify) = notify_source { notify.notify_one(); }
NotifyOne == IF has_notify THEN TRUE ELSE notify_source

\* ConnState::Connected
CtrlConnected(storeOk) ==
    /\ ctrl_pc = "idle"
    /\ rx # <<>>
    /\ Head(rx).state = "Connected"
    /\ rx' = Tail(rx)
    /\ source_store' = StoreInsert(source_store, Head(rx).source, Head(rx).ts, storeOk)
    /\ IF ~Head(rx).rep
       THEN /\ sources' = Put(sources, Head(rx).source, Head(rx).ts)
            /\ notify_source' = NotifyOne
       ELSE UNCHANGED <<sources, notify_source>>
    /\ UNCHANGED <<ingestVars, sensorVars, peerVars, storeVars, frameVars, conn_st, conn_cert, link, dispatchers,
                   packet_sources, has_notify, ctrl_pc, ctrl_key, stream_of, endpoint,
                   wait_shutdown, now>>

\* ConnState::Disconnected, up to sources.write().await.remove(&source_key)
CtrlDisconnected(storeOk) ==
    /\ ctrl_pc = "idle"
    /\ rx # <<>>
    /\ Head(rx).state = "Disconnected"
    /\ rx' = Tail(rx)
    /\ source_store' = StoreInsert(source_store, Head(rx).source, Head(rx).ts, storeOk)
    /\ IF ~Head(rx).rep
       THEN /\ sources' = Remove(sources, Head(rx).source)
            /\ ctrl_pc' = "remove_packet"
            /\ ctrl_key' = Head(rx).source
       ELSE UNCHANGED <<sources, ctrl_pc, ctrl_key>>
    /\ UNCHANGED <<ingestVars, sensorVars, peerVars, storeVars, frameVars, conn_st, conn_cert, link, dispatchers,
                   packet_sources, notify_source, has_notify, stream_of, endpoint,
                   wait_shutdown, now>>

\* CtrlRemovePacket without the removal.
CtrlRemovePacketKept ==
    /\ ctrl_pc = "remove_packet"
    /\ notify_source' = NotifyOne
    /\ ctrl_pc' = "idle"
    /\ ctrl_key' = ""
    /\ UNCHANGED <<ingestVars, sensorVars, peerVars, storeVars, frameVars, conn_st, conn_cert, link, dispatchers, rx,
                   packet_sources, sources, source_store, has_notify, stream_of,
                   endpoint, wait_shutdown, now>>

\* packet_sources.write().await.remove(&source_key), and the notification
CtrlRemovePacket ==
    /\ ctrl_pc = "remove_packet"
    /\ packet_sources' = Remove(packet_sources, ctrl_key)
    /\ notify_source' = NotifyOne
    /\ ctrl_pc' = "idle"
    /\ ctrl_key' = ""
    /\ UNCHANGED <<ingestVars, sensorVars, peerVars, storeVars, frameVars, conn_st, conn_cert, link, dispatchers, rx,
                   sources, source_store, has_notify, stream_of, endpoint,
                   wait_shutdown, now>>

\* _ = itv.tick(): every sensor of the roster gets Utc::now() as its last-seen
\* time, in the roster and (unless the insert fails) in the store. The clock
\* advances when a connection reads it, so a tick changes the roster once
\* between two such reads.
CtrlTick(failed) ==
    /\ ctrl_pc = "idle"
    /\ DOMAIN sources # {}
    /\ failed \subseteq DOMAIN sources
    /\ sources' = [k \in DOMAIN sources |-> now]
    /\ sources' # sources
    /\ source_store' = [k \in DOMAIN source_store \cup (DOMAIN sources \ failed) |->
                          IF k \in DOMAIN sources \ failed THEN now ELSE source_store[k]]
    /\ UNCHANGED <<ingestVars, sensorVars, peerVars, storeVars, frameVars, conn_st, conn_cert, link, dispatchers, rx,
                   packet_sources, notify_source, has_notify, ctrl_pc, ctrl_key,
                   stream_of, endpoint, wait_shutdown, now>>

\* The peer layer: () = peer_conn_info.notify_source.notified()
PeerNotified ==
    /\ notify_source
    /\ notify_source' = FALSE
    /\ UNCHANGED <<ingestVars, sensorVars, peerVars, storeVars, frameVars, conn_st, conn_cert, link, dispatchers, rx,
                   packet_sources, sources, source_store, has_notify, ctrl_pc, ctrl_key,
                   stream_of, endpoint, wait_shutdown, now>>

(***************************************************************************)
(* The peer layer (src/peer.rs): two engines, each with the client task of *)
(* the connection it dials and the server task of the connections it       *)
(* accepts, and a third engine that dials one of them.                     *)
(***************************************************************************)
Engines == {"A", "B"}

\* the PeerInfo values of the model: the two engines, a third engine C, and a
\* PeerInfo at the IP address of A
PeerNames == Engines \cup {"C", "A2"}

\* recv_peer_info.address.ip() and local_address.ip()
IpOf(p) == IF p \in {"A", "A2"} THEN "10.0.0.1"
           ELSE IF p = "B" THEN "10.0.0.2" ELSE "10.0.0.3"

\* connection 1 is dialled by A, connection 2 by B
PeerConnIds == {1, 2}

\* the connection C dials to B
ThirdConnIds == {3}

AllConnIds == PeerConnIds \cup ThirdConnIds

Roles == {"client", "server"}

Dialer(k) == IF k = 1 THEN "A" ELSE IF k = 2 THEN "B" ELSE "C"

Acceptor(k) == IF k = 2 THEN "A" ELSE "B"

\* the engine a task runs in, and the remote_host_name it finds in the
\* certificate of its connection
Owner(k, role) == IF role = "client" THEN Dialer(k) ELSE Acceptor(k)

Remote(k, role) == IF role = "client" THEN Acceptor(k) ELSE Dialer(k)

\* the task at the other end of connection k
OtherRole(role) == IF role = "client" THEN "server" ELSE "client"

\* PeerCode::UpdatePeerList and PeerCode::UpdateSourceList
UpdatePeerList == "UpdatePeerList"

UpdateSourceList == "UpdateSourceList"

NoMsg == [sent |-> FALSE, list |-> {}, sources |-> {}]

\* the (peer_list, source_list) pair of the initial exchange
Msg(list, srcs) == [sent |-> TRUE, list |-> list, sources |-> srcs]

NoData == [list |-> {}, sources |-> {}]

\* sources.read().await.keys(): the engine whose ingest side is modelled is B
SourceList(e) == IF e = "B" THEN DOMAIN sources ELSE {}

\* the lists C sends in its init request
ThirdLists == {{"C", "A2"}}

\* a task that is not inside update_to_new_peer_list
NoUpdate == [recv_peer_list |-> {}, recv_peer_info |-> "", is_change |-> FALSE]

\* Peer::run and client_run: a client_connection task is spawned for every
\* peer of the configured list, which is what the configuration document
\* holds; A is configured with B, and B with A or with no peer.
InitPeer ==
    /\ peer_list \in {[e \in Engines |-> IF e = "A" THEN {"B"} ELSE l] : l \in {{}, {"A"}}}
    /\ peer_conn = [e \in Engines |-> EmptyMap]
    /\ peer_sources = [e \in Engines |-> EmptyMap]
    /\ pconn = [k \in AllConnIds |-> "none"]
    /\ ppc = [k \in AllConnIds |->
                [r \in Roles |-> IF r = "client" /\ k \in PeerConnIds
                                    /\ Acceptor(k) \in peer_list[Dialer(k)]
                                 THEN "spawned" ELSE "idle"]]
    /\ req = [k \in AllConnIds |-> NoMsg]
    /\ resp = [k \in AllConnIds |-> NoMsg]
    /\ rcv = [k \in AllConnIds |-> [r \in Roles |-> NoData]]
    /\ dial_queue = [e \in Engines |-> EmptyBag]
    /\ config_peers = peer_list
    /\ snap = [k \in AllConnIds |-> [r \in Roles |-> {}]]
    /\ updating = [k \in AllConnIds |-> [r \in Roles |-> NoUpdate]]
    /\ inbox = [k \in AllConnIds |-> [r \in Roles |-> {}]]
    /\ handlers = [e \in Engines |-> {}]
    /\ write_err = [e \in Engines |-> FALSE]
    /\ dials = [k \in PeerConnIds |-> 0]
    /\ dial_err = [k \in PeerConnIds |-> "none"]
    /\ slept = [k \in PeerConnIds |-> 0]

\* the peer layer while the other parts of the engine are observed
InitPeerLayer ==
    /\ InitPeer
    /\ peer_list["B"] = {}

SetPc(k, role, pc) == [ppc EXCEPT ![k][role] = pc]

\* connect(): the QUIC connection and the version handshake; the acceptor's
\* Peer::run spawns server_connection, which completes the handshake.
ClientConnect(k) ==
    /\ ppc[k]["client"] = "spawned"
    /\ pconn[k] = "none"
    /\ pconn' = [pconn EXCEPT ![k] = "open"]
    /\ ppc' = [ppc EXCEPT ![k] = [client |-> "check", server |-> "check"]]
    /\ dials' = [dials EXCEPT ![k] = @ + 1]
    /\ dial_err' = [dial_err EXCEPT ![k] = "none"]
    /\ UNCHANGED <<outsidePeer, peer_list, peer_conn, peer_sources, req, resp, rcv,
                   gossipVars, slept>>

\* the quinn::ConnectionError values after which the dial is repeated after
\* PEER_RETRY_INTERVAL
RetriedErrors == {"ConnectionClosed", "ApplicationClosed", "Reset", "TimedOut"}

\* the other quinn::ConnectionError values
OtherConnectionErrors == {"VersionMismatch", "TransportError", "LocallyClosed"}

\* the errors of connect() that are no quinn::ConnectionError: the
\* ConnectError of Endpoint::connect and the error of client_handshake
OtherErrors == {"ConnectError", "HandshakeError"}

DialErrors == RetriedErrors \cup OtherConnectionErrors \cup OtherErrors

\* match connect(..).await { Err(e) => .. }: after one of RetriedErrors the
\* task sleeps and the loop dials again; after another ConnectionError the
\* match arm is empty and the loop dials again at once; after an error that is
\* no ConnectionError the task returns Ok(()).
DialFail(k, err) ==
    /\ ppc[k]["client"] = "spawned"
    /\ pconn[k] = "none"
    /\ dials[k] < MaxDials
    /\ dials' = [dials EXCEPT ![k] = @ + 1]
    /\ dial_err' = [dial_err EXCEPT ![k] = err]
    /\ slept' = [slept EXCEPT ![k] = 0]
    /\ ppc' = SetPc(k, "client", IF err \in RetriedErrors THEN "sleep"
                                 ELSE IF err \in OtherConnectionErrors THEN "spawned"
                                 ELSE "done")
    /\ UNCHANGED <<outsidePeer, peer_list, peer_conn, peer_sources, pconn, req, resp, rcv,
                   gossipVars>>

\* a second passes for the tasks in sleep(Duration::from_secs(PEER_RETRY_INTERVAL))
DialTick ==
    /\ \E k \in PeerConnIds : ppc[k]["client"] = "sleep" /\ slept[k] < PEER_RETRY_INTERVAL
    /\ slept' = [k \in PeerConnIds |->
                   IF ppc[k]["client"] = "sleep" /\ slept[k] < PEER_RETRY_INTERVAL
                   THEN slept[k] + 1 ELSE slept[k]]
    /\ UNCHANGED <<outsidePeer, peer_list, peer_conn, peer_sources, pconn, ppc, req, resp,
                   rcv, gossipVars, dials, dial_err>>

\* the sleep is over: continue 'connection
DialRetry(k) ==
    /\ ppc[k]["client"] = "sleep"
    /\ slept[k] = PEER_RETRY_INTERVAL
    /\ ppc' = SetPc(k, "client", "spawned")
    /\ UNCHANGED <<outsidePeer, peer_list, peer_conn, peer_sources, pconn, req, resp, rcv,
                   gossipVars, dialVars>>

\* the third engine dials B: B's Peer::run accepts the connection and spawns
\* server_connection
ThirdConnect(k) ==
    /\ pconn[k] = "none"
    /\ pconn' = [pconn EXCEPT ![k] = "open"]
    /\ ppc' = SetPc(k, "server", "check")
    /\ UNCHANGED <<outsidePeer, dialVars, peer_list, peer_conn, peer_sources, req, resp, rcv,
                   gossipVars>>

\* the third engine's request_init_info: its peer list with its own PeerInfo
ThirdRequest(k, list) ==
    /\ pconn[k] = "open"
    /\ ~req[k].sent
    /\ req' = [req EXCEPT ![k] = Msg(list, {})]
    /\ UNCHANGED <<outsidePeer, dialVars, peer_list, peer_conn, peer_sources, pconn, ppc, resp, rcv,
                   gossipVars>>

\* a duplicate check that finds nothing
DuplicateFoundNever(map, name) == FALSE

\* peer_conn.read().await.contains_key(&remote_host_name)
DuplicateFound(map, name) == name \in DOMAIN map

\* check_for_duplicate_connections and its caller: on a duplicate the
\* connection is closed and the task returns.
CheckDuplicate(k, role) ==
    /\ ppc[k][role] = "check"
    /\ IF DuplicateFound(peer_conn[Owner(k, role)], Remote(k, role))
       THEN /\ pconn' = [pconn EXCEPT ![k] = "closed"]
            /\ ppc' = SetPc(k, role, "done")
       ELSE /\ ppc' = SetPc(k, role, "exchange")
            /\ UNCHANGED pconn
    /\ UNCHANGED <<outsidePeer, dialVars, peer_list, peer_conn, peer_sources, req, resp, rcv,
                   gossipVars>>

\* ClientRequest reading before it sends, as the server role does.
ClientRequestReadsFirst(k) ==
    /\ ppc[k]["client"] = "exchange"
    /\ pconn[k] = "closed" \/ resp[k].sent
    /\ IF pconn[k] = "open"
       THEN /\ req' = [req EXCEPT ![k] = Msg(peer_list[Dialer(k)] \cup {Dialer(k)},
                                             SourceList(Dialer(k)))]
            /\ ppc' = SetPc(k, "client", "await")
       ELSE /\ ppc' = SetPc(k, "client", "done")
            /\ UNCHANGED req
    /\ UNCHANGED <<outsidePeer, dialVars, peer_list, peer_conn, peer_sources, pconn, resp, rcv,
                   gossipVars>>

\* request_init_info, send_peer_data: the client sends its peer list with its
\* own PeerInfo added, and its source list; on a closed connection the `?`
\* ends the task.
ClientRequest(k) ==
    /\ ppc[k]["client"] = "exchange"
    /\ IF pconn[k] = "open"
       THEN /\ req' = [req EXCEPT ![k] = Msg(peer_list[Dialer(k)] \cup {Dialer(k)},
                                             SourceList(Dialer(k)))]
            /\ ppc' = SetPc(k, "client", "await")
       ELSE /\ ppc' = SetPc(k, "client", "done")
            /\ UNCHANGED req
    /\ UNCHANGED <<outsidePeer, dialVars, peer_list, peer_conn, peer_sources, pconn, resp, rcv,
                   gossipVars>>

\* response_init_info: the server receives the request and sends its own peer
\* list and source list; on a closed connection the `?` ends the task.
ServerRespond(k) ==
    /\ ppc[k]["server"] = "exchange"
    /\ pconn[k] = "closed" \/ req[k].sent
    /\ IF pconn[k] = "open"
       THEN /\ rcv' = [rcv EXCEPT ![k]["server"] =
                          [list |-> req[k].list, sources |-> req[k].sources]]
            /\ resp' = [resp EXCEPT ![k] = Msg(peer_list[Acceptor(k)],
                                               SourceList(Acceptor(k)))]
            /\ ppc' = SetPc(k, "server", "update")
       ELSE /\ ppc' = SetPc(k, "server", "done")
            /\ UNCHANGED <<rcv, resp>>
    /\ UNCHANGED <<outsidePeer, dialVars, peer_list, peer_conn, peer_sources, pconn, req,
                   gossipVars>>

\* request_init_info, receive_peer_data: the client receives the response.
ClientReceive(k) ==
    /\ ppc[k]["client"] = "await"
    /\ pconn[k] = "closed" \/ resp[k].sent
    /\ IF pconn[k] = "open"
       THEN /\ rcv' = [rcv EXCEPT ![k]["client"] =
                          [list |-> resp[k].list, sources |-> resp[k].sources]]
            /\ ppc' = SetPc(k, "client", "update")
       ELSE /\ ppc' = SetPc(k, "client", "done")
            /\ UNCHANGED rcv
    /\ UNCHANGED <<outsidePeer, dialVars, peer_list, peer_conn, peer_sources, pconn, req, resp,
                   gossipVars>>

\* update_to_new_peer_list: the received peers that are not at the IP address
\* of this engine and not yet in its list
NewPeers(e, list) == {p \in list : IpOf(p) # IpOf(e) /\ p \notin peer_list[e]}

\* the connections of peer_conn.values() on which open_bi succeeds, each with
\* the role of the task at its other end; what is sent to the third engine
\* leaves the model
OpenConns(e) ==
    {<<peer_conn[e][n], OtherRole(r)>> : n \in DOMAIN peer_conn[e], r \in Roles} \cap
        {<<k, r>> \in PeerConnIds \X Roles : pconn[k] = "open" /\ Owner(k, r) # e}

\* update_peer_info spawned for every connection of peer_conn: open_bi and
\* send_peer_data put the message before the task at the other end
Broadcast(e, m) ==
    [k \in AllConnIds |-> [r \in Roles |->
        IF <<k, r>> \in OpenConns(e) THEN inbox[k][r] \cup {m} ELSE inbox[k][r]]]

\* update_to_new_source_list, then the loop of update_to_new_peer_list: every
\* new peer is inserted in peer_list and sent to Peer::run.
UpdateLists(k, role) ==
    /\ ppc[k][role] = "update"
    /\ LET e == Owner(k, role)
           new == NewPeers(e, rcv[k][role].list)
       IN /\ peer_sources' = [peer_sources EXCEPT ![e] =
                                 Put(@, Remote(k, role), rcv[k][role].sources)]
          /\ peer_list' = [peer_list EXCEPT ![e] = @ \cup new]
          /\ dial_queue' = [dial_queue EXCEPT ![e] = @ (+) SetToBag(new)]
          /\ ppc' = SetPc(k, role, IF new # {} THEN "snapshot" ELSE "share")
    /\ UNCHANGED <<outsidePeer, dialVars, peer_conn, pconn, req, resp, rcv, config_peers, snap, updating,
                   inbox, handlers, write_err>>

\* update_to_new_peer_list, is_change: data = peer_list.read().await
SnapshotPeers(k, role) ==
    /\ ppc[k][role] = "snapshot"
    /\ snap' = [snap EXCEPT ![k][role] = peer_list[Owner(k, role)]]
    /\ ppc' = SetPc(k, role, "write")
    /\ UNCHANGED <<outsidePeer, dialVars, peer_list, peer_conn, peer_sources, pconn, req, resp, rcv,
                   dial_queue, config_peers, updating, inbox, handlers, write_err>>

\* insert_toml_peers and write_toml_file: the peers of the configuration
\* document become `data`; an error is logged and the task goes on.
WriteConfig(k, role, ok) ==
    /\ ppc[k][role] = "write"
    /\ IF ok
       THEN /\ config_peers' = [config_peers EXCEPT ![Owner(k, role)] = snap[k][role]]
            /\ UNCHANGED write_err
       ELSE /\ write_err' = [write_err EXCEPT ![Owner(k, role)] = TRUE]
            /\ UNCHANGED config_peers
    /\ ppc' = SetPc(k, role, "share")
    /\ UNCHANGED <<outsidePeer, dialVars, peer_list, peer_conn, peer_sources, pconn, req, resp, rcv,
                   dial_queue, snap, updating, inbox, handlers>>

\* "Share the received peer list with connected peers": the peer list of the
\* engine is sent on every connection of peer_conn.
ShareLists(k, role) ==
    /\ ppc[k][role] = "share"
    /\ LET e == Owner(k, role)
       IN inbox' = Broadcast(e, [type |-> UpdatePeerList, list |-> peer_list[e]])
    /\ ppc' = SetPc(k, role, "insert")
    /\ UNCHANGED <<outsidePeer, dialVars, peer_list, peer_conn, peer_sources, pconn, req, resp, rcv,
                   dial_queue, config_peers, snap, updating, handlers, write_err>>

\* peer_conn.write().await.insert(remote_host_name.clone(), connection.clone())
InsertConn(k, role) ==
    /\ ppc[k][role] = "insert"
    /\ peer_conn' = [peer_conn EXCEPT ![Owner(k, role)] = Put(@, Remote(k, role), k)]
    /\ ppc' = SetPc(k, role, "loop")
    /\ UNCHANGED <<outsidePeer, dialVars, peer_list, peer_sources, pconn, req, resp, rcv,
                   gossipVars>>

\* a handle_request task that has inserted new peers and goes on to the
\* configuration document
WritingHandler == [pc |-> "snapshot", data |-> {}]

\* stream = connection.accept_bi() => Ok: handle_request is spawned and
\* receives the message. UpdatePeerList: the loop of update_to_new_peer_list;
\* UpdateSourceList: update_to_new_source_list.
HandleRequest(k, role, m) ==
    /\ ppc[k][role] = "loop"
    /\ pconn[k] = "open"
    /\ m \in inbox[k][role]
    /\ inbox' = [inbox EXCEPT ![k][role] = @ \ {m}]
    /\ LET e == Owner(k, role)
       IN IF m.type = UpdatePeerList
          THEN LET new == NewPeers(e, m.list)
               IN /\ peer_list' = [peer_list EXCEPT ![e] = @ \cup new]
                  /\ dial_queue' = [dial_queue EXCEPT ![e] = @ (+) SetToBag(new)]
                  /\ handlers' = [handlers EXCEPT ![e] =
                                     IF new # {} THEN @ \cup {WritingHandler} ELSE @]
                  /\ UNCHANGED peer_sources
          ELSE /\ peer_sources' = [peer_sources EXCEPT ![e] = Put(@, Remote(k, role), m.list)]
               /\ UNCHANGED <<peer_list, dial_queue, handlers>>
    /\ UNCHANGED <<outsidePeer, dialVars, peer_conn, pconn, ppc, req, resp, rcv, config_peers, snap, updating,
                   write_err>>

\* update_to_new_peer_list in a handle_request task, is_change:
\* data = peer_list.read().await
HandlerSnapshot(e, h) ==
    /\ h \in handlers[e]
    /\ h.pc = "snapshot"
    /\ handlers' = [handlers EXCEPT ![e] = (@ \ {h}) \cup {[pc |-> "write", data |-> peer_list[e]]}]
    /\ UNCHANGED <<outsidePeer, dialVars, peer_list, peer_conn, peer_sources, pconn, ppc, req, resp,
                   rcv, dial_queue, config_peers, snap, updating, inbox, write_err>>

\* insert_toml_peers and write_toml_file in a handle_request task, which then
\* returns Ok(())
HandlerWrite(e, h, ok) ==
    /\ h \in handlers[e]
    /\ h.pc = "write"
    /\ IF ok
       THEN /\ config_peers' = [config_peers EXCEPT ![e] = h.data]
            /\ UNCHANGED write_err
       ELSE /\ write_err' = [write_err EXCEPT ![e] = TRUE]
            /\ UNCHANGED config_peers
    /\ handlers' = [handlers EXCEPT ![e] = @ \ {h}]
    /\ UNCHANGED <<outsidePeer, dialVars, peer_list, peer_conn, peer_sources, pconn, ppc, req, resp,
                   rcv, dial_queue, snap, updating, inbox>>

\* Peer::run, Some(peer) = receiver.recv(): a client_connection task is
\* spawned for the peer; the tasks that dial C or A2 are outside the model.
SpawnDial(e, p) ==
    /\ BagIn(p, dial_queue[e])
    /\ dial_queue' = [dial_queue EXCEPT ![e] = @ (-) SetToBag({p})]
    /\ ppc' = [j \in AllConnIds |-> [r \in Roles |->
                 IF r = "client" /\ Dialer(j) = e /\ Acceptor(j) = p /\ ppc[j][r] = "idle"
                 THEN "spawned"
                 ELSE ppc[j][r]]]
    /\ UNCHANGED <<outsidePeer, dialVars, peer_list, peer_conn, peer_sources, pconn, req, resp, rcv,
                   config_peers, snap, updating, inbox, handlers, write_err>>

\* () = peer_conn_info.notify_source.notified(): the task takes the permit,
\* reads the keys of sources and spawns update_peer_info for every connection
\* of peer_conn.
SourceBroadcast(k, role) ==
    /\ ppc[k][role] = "loop"
    /\ Owner(k, role) = "B"
    /\ notify_source
    /\ notify_source' = FALSE
    /\ inbox' = Broadcast("B", [type |-> UpdateSourceList, list |-> SourceList("B")])
    /\ UNCHANGED <<ingestVars, sensorVars, storeVars, frameVars, conn_st, conn_cert, link, dispatchers,
                   rx, packet_sources, sources, source_store, has_notify, ctrl_pc, ctrl_key,
                   stream_of, endpoint, wait_shutdown, now>>
    /\ UNCHANGED <<dialVars, peer_list, peer_conn, peer_sources, pconn, ppc, req, resp, rcv,
                   dial_queue, config_peers, snap, updating, handlers, write_err>>

\* stream = connection.accept_bi() => Err(e) with the connection closed by the
\* peer application: the entries of the remote host are removed and the task
\* returns.
LoopClosed(k, role) ==
    /\ ppc[k][role] = "loop"
    /\ pconn[k] = "closed"
    /\ peer_conn' = [peer_conn EXCEPT ![Owner(k, role)] = Remove(@, Remote(k, role))]
    /\ peer_sources' = [peer_sources EXCEPT ![Owner(k, role)] = Remove(@, Remote(k, role))]
    /\ ppc' = SetPc(k, role, "done")
    /\ UNCHANGED <<outsidePeer, dialVars, peer_list, pconn, req, resp, rcv, gossipVars>>

\* () = wait_shutdown.notified() => sleep; connection.close(0, &[]); return
\* Ok(()): the engine of the task is shut down.
PeerShutdown(k, role) ==
    /\ ppc[k][role] = "loop"
    /\ pconn' = [pconn EXCEPT ![k] = "closed"]
    /\ ppc' = SetPc(k, role, "shutdown")
    /\ UNCHANGED <<outsidePeer, dialVars, peer_list, peer_conn, peer_sources, req, resp, rcv,
                   gossipVars>>

(***************************************************************************)
(* The raw event store (src/storage.rs) and its keys.                      *)
(***************************************************************************)
\* the sensors whose records are stored, and as_bytes() of their names
StoreSensors == {"src 1", "src 2"}

AsBytes(s) == IF s = "src 1" THEN <<115, 114, 99, 32, 49>> ELSE <<115, 114, 99, 32, 50>>

RawEvents == {"event a", "event b"}

\* 256^n
Pow256(n) == IF n = 0 THEN 1 ELSE IF n = 1 THEN 256 ELSE IF n = 2 THEN 65536 ELSE 16777216

\* the timestamps of the model are two's-complement integers of TsBytes
\* bytes; the i64 of the source has TIMESTAMP_SIZE = 8 of them
TsModulus == Pow256(TsBytes)

TsMin == 0 - (TsModulus \div 2)

TsMax == (TsModulus \div 2) - 1

\* the timestamps the records of the model carry
TsSamples == {TsMin, -1, 0, 1, 255, 256}

\* the instants the range scans of the model are made with
ScanTimes == {0, 1, 256}

\* i64::to_be_bytes
ToBeBytes(ts) ==
    [i \in 1..TsBytes |-> ((ts % TsModulus) \div Pow256(TsBytes - i)) % 256]

\* <[u8] as Ord>::cmp: the lexicographic order of byte strings
Less(a, b) ==
    \E i \in 1..Len(b) :
        /\ i <= Len(a) + 1
        /\ \A j \in 1..(i - 1) : a[j] = b[j]
        /\ i = Len(a) + 1 \/ a[i] < b[i]

Cmp(a, b) == IF a = b THEN "Equal" ELSE IF Less(a, b) THEN "Less" ELSE "Greater"

\* Option<DateTime<Utc>>
NoTime == [some |-> FALSE, ns |-> 0]

SomeTime(t) == [some |-> TRUE, ns |-> t]

\* lower_bound_key
lower_bound_key(prefix, time) ==
    IF time.some /\ time.ns # TsMin /\ time.ns - 1 >= 0
    THEN prefix \o <<0>> \o ToBeBytes(time.ns - 1)
    ELSE prefix \o <<0>>

\* upper_bound_key
upper_bound_key(prefix, time) ==
    IF time.some
    THEN prefix \o <<0>> \o ToBeBytes(time.ns)
    ELSE prefix \o <<1>>

\* StorageKey::builder().start_key(source).end_key(timestamp).build().key():
\* the sensor, a NUL and the big-endian timestamp
StorageKey(source, timestamp) == AsBytes(source) \o <<0>> \o ToBeBytes(timestamp)

\* no sweep has been made over the present families
NoSweep == [done |-> FALSE, cutoff |-> 0, conn |-> <<>>, log |-> <<>>]

\* the iterator that is not open
NoIter == [state |-> "none", cf |-> "", source |-> "", t1 |-> 0, t2 |-> 0,
           from |-> <<>>, boundary |-> <<>>, direction |-> "", cond |-> "",
           last |-> <<>>, out |-> <<>>]

\* the sub-stream whose records are not followed
NoSub == [kind |-> "", source |-> ""]

\* the store before a record is appended
InitFamilies ==
    /\ conn_db = EmptyMap
    /\ packet_db = EmptyMap
    /\ ingested = {}
    /\ iter = NoIter
    /\ log_db = EmptyMap
    /\ swept = NoSweep
    /\ cf_db = EmptyMap
    /\ bus = <<>>
    /\ handled = <<>>

InitStore == InitFamilies /\ sub = NoSub

\* handle_data, store.append(&storage_key.key(), &raw_event): put_cf sets the
\* value of the key. No record is ingested while the iterator of the model is
\* open (a RocksDB iterator reads the state of its creation), and the finished
\* iterator of an earlier scan and the record of an earlier sweep are dropped.
StoreAppend(source, timestamp, raw_event) ==
    /\ iter.state # "open"
    /\ Cardinality(ingested) < MaxStored
    /\ conn_db' = Put(conn_db, StorageKey(source, timestamp),
                      [source |-> source, ts |-> timestamp, raw_event |-> raw_event])
    /\ ingested' = ingested \cup
                      {[source |-> source, ts |-> timestamp, raw_event |-> raw_event]}
    /\ iter' = NoIter
    /\ swept' = NoSweep
    /\ UNCHANGED <<outsideStore, kindVars, packet_db, log_db>>

\* Iter::new: Direction::Forward => cmp::Ordering::Less
ForwardCond == "Less"

\* conn_iter(&lower_bound_key(source, t1), &upper_bound_key(source, t2),
\* Direction::Forward): IteratorMode::From(from, Forward) and Iter::new
ConnIter(source, t1, t2) ==
    /\ iter.state # "open"
    /\ t1 < t2
    /\ iter' = [state |-> "open", cf |-> "conn", source |-> source, t1 |-> t1, t2 |-> t2,
                from |-> lower_bound_key(AsBytes(source), SomeTime(t1)),
                boundary |-> upper_bound_key(AsBytes(source), SomeTime(t2)),
                direction |-> "Forward", cond |-> ForwardCond, last |-> <<>>, out |-> <<>>]
    /\ UNCHANGED <<outsideStore, kindVars, retainVars, conn_db, packet_db, ingested>>

\* Iter::new: Direction::Reverse => cmp::Ordering::Greater
ReverseCond == "Greater"

\* conn_iter(&upper_bound_key(source, t2), &lower_bound_key(source, t1),
\* Direction::Reverse): IteratorMode::From(from, Reverse) and Iter::new
ConnIterReverse(source, t1, t2) ==
    /\ iter.state # "open"
    /\ t1 < t2
    /\ iter' = [state |-> "open", cf |-> "conn", source |-> source, t1 |-> t1, t2 |-> t2,
                from |-> upper_bound_key(AsBytes(source), SomeTime(t2)),
                boundary |-> lower_bound_key(AsBytes(source), SomeTime(t1)),
                direction |-> "Reverse", cond |-> ReverseCond, last |-> <<>>, out |-> <<>>]
    /\ UNCHANGED <<outsideStore, kindVars, retainVars, conn_db, packet_db, ingested>>

\* the column family the iterator reads
IterDb == IF iter.cf = "conn" THEN conn_db ELSE packet_db

\* what is left for self.inner: for a forward iterator the keys from `from`
\* on, for a reverse iterator the keys from `from` down, that it has not yielded
InnerRest ==
    IF iter.direction = "Reverse"
    THEN {k \in DOMAIN IterDb : ~Less(iter.from, k) /\ (iter.last = <<>> \/ Less(k, iter.last))}
    ELSE {k \in DOMAIN IterDb : ~Less(k, iter.from) /\ (iter.last = <<>> \/ Less(iter.last, k))}

\* self.inner.next(): the least key left for a forward iterator, the greatest
\* for a reverse iterator
InnerNext ==
    IF iter.direction = "Reverse"
    THEN CHOOSE k \in InnerRest : \A o \in InnerRest : o = k \/ Less(o, k)
    ELSE CHOOSE k \in InnerRest : \A o \in InnerRest : o = k \/ Less(k, o)

\* Iter::next: self.inner.next() is None, or its key compares to the boundary
\* as self.cond and the iterator ends, or the pair is yielded
IterNext ==
    /\ iter.state = "open"
    /\ IF InnerRest = {}
       THEN iter' = [iter EXCEPT !.state = "done"]
       ELSE LET key == InnerNext
            IN IF Cmp(key, iter.boundary) = iter.cond
               THEN iter' = [iter EXCEPT !.state = "done"]
               ELSE iter' = [iter EXCEPT !.last = key,
                                         !.out = Append(@, [key |-> key, value |-> IterDb[key]])]
    /\ UNCHANGED <<outsideStore, kindVars, retainVars, conn_db, packet_db, ingested>>

\* Sub-streams observed from their start and from shortly before a rotation,
\* on which the sensor sends at most MaxRecords further records.
Init ==
    /\ \/ InitIngest
       \/ InitNearRotation
    /\ stream_len = sent + MaxRecords
    /\ InitOutside
    /\ InitPeerLayer
    /\ InitStore

Next ==
    \/ \E r \in DataRecords : SensorSend(r)
    \/ SensorSentinel
    \/ SensorFinish
    \/ SensorReset
    \/ \E ok \in BOOLEAN : RecvSentinel(ok)
    \/ \E o \in RecordOutcomes : RecvRecord(o)
    \/ \E ok \in BOOLEAN : RecvFinished(ok)
    \/ \E ok \in BOOLEAN : RecvError(ok)
    \/ CountRecord
    \/ StoreTime
    \/ \E ok \in BOOLEAN : CheckRotation(ok)
    \/ \E ok \in BOOLEAN : RotSend(ok)
    \/ RotReset
    \/ RotNotify
    \/ \E ok \in BOOLEAN : RotFlush(ok)
    \/ HandlerTick
    \/ \E ok \in BOOLEAN : HandlerSend(ok)
    \/ HandlerReset
    \/ HandlerNotified
    \/ HandlerCancelled
    \/ SetShutdown

Spec == Init /\ [][Next]_vars

(***************************************************************************)
(* Properties of the acknowledgement protocol.                             *)
(***************************************************************************)
NonSentinel(seq) == SelectSeq(seq, LAMBDA a : a # CHANNEL_CLOSE_TIMESTAMP)

NonDecreasing(seq) == \A i \in 1..(Len(seq) - 1) : seq[i] <= seq[i + 1]

\* a step that writes one ack frame, and the frame
AckEmitted == Len(acks') = Len(acks) + 1

NewAck == acks'[Len(acks')]

\* data records the dispatcher has taken from the recv stream
Processed == sent - (IF wire.kind = "record" /\ ~IsSentinel(wire) THEN 1 ELSE 0)

\* C1: the ack timestamps emitted on a sub-stream, sentinel acks of -1 left out,
\* are non-decreasing.
C1_AckMonotone == NonDecreasing(NonSentinel(acks))

\* C2: when a non-sentinel ack T is emitted, every record received so far with
\* a timestamp <= T has been written to the store and flushed before that.
C2_DurableBeforeAck ==
    [][(AckEmitted /\ NewAck # CHANNEL_CLOSE_TIMESTAMP)
          => \A t \in received : t <= NewAck => (t \in written /\ t \in flushed)]_vars

\* C3: the dispatcher takes the rotation branch exactly when it reads the
\* counter at ACK_ROTATION_CNT or more; the branch writes exactly one ack, the
\* timestamp of the record just written, then stores 0 in the counter, then
\* notifies the interval task, then flushes; the dispatcher writes no other
\* ack than this one and the sentinel's.
C3_RotationAck ==
    [][/\ (dpc = "check" /\ dpc' # "check")
            => (dpc' = "rot_send" <=> ack_cnt >= ACK_ROTATION_CNT)
       /\ (dpc # "rot_send" /\ dpc' = "rot_send") => dpc = "check"
       /\ (dpc = "rot_send" /\ dpc' = "rot_reset")
            => (acks' = Append(acks, cur) /\ cur = ack_time /\ cur \in written)
       /\ (dpc = "rot_send" /\ dpc' # "rot_send") => dpc' \in {"rot_reset", "err"}
       /\ (dpc = "rot_reset" /\ dpc' # "rot_reset")
            => (ack_cnt' = 0 /\ dpc' = "rot_notify")
       /\ (dpc = "rot_notify" /\ dpc' # "rot_notify")
            => (ack_time_notify' /\ dpc' = "rot_flush")
       /\ (dpc = "rot_flush" /\ dpc' \notin {"rot_flush", "err"})
            => flushed' = written
       /\ (AckEmitted /\ hpc' = hpc /\ NewAck # CHANNEL_CLOSE_TIMESTAMP)
            => dpc = "rot_send"]_vars

\* a rotation has run to its end on a sub-stream
C3_Witness ==
    /\ dpc = "recv"
    /\ sent = ACK_ROTATION_CNT
    /\ acks = <<ack_time>>
    /\ ack_cnt = 0
    /\ flushed = written
    /\ written # {}

C6_SentinelAck ==
    [][(dpc = "recv" /\ wire = SentinelRecord /\ wire' # wire)
          => /\ UNCHANGED <<written, flushed, received, ack_cnt, ack_time, unacked>>
             /\ \/ acks' = Append(acks, CHANNEL_CLOSE_TIMESTAMP) /\ dpc' = "recv"
                \/ acks' = acks /\ dpc' = "err"]_vars

\* a sentinel was acknowledged in the middle of counted records
C6_Witness ==
    /\ dpc = "recv"
    /\ acks # <<>>
    /\ acks[Len(acks)] = CHANNEL_CLOSE_TIMESTAMP
    /\ ack_cnt > 0
    /\ ack_time # NO_TIMESTAMP
    /\ written # {}

(***************************************************************************)
(* SpecStream: the ack-rotation scenario. A sensor streams                 *)
(* ACK_ROTATION_CNT + 1 records within one ack interval (no tick of the    *)
(* interval task falls into the run), may send the sentinel, and closes    *)
(* the stream; the store and the send stream do not fail.                  *)
(***************************************************************************)
ScenarioRecords == ACK_ROTATION_CNT + 1

InitStream ==
    /\ InitIngest
    /\ stream_len = ScenarioRecords
    /\ InitOutside
    /\ InitPeerLayer
    /\ InitStore

\* after the last record the sensor may send the sentinel, once
StreamSentinel ==
    /\ sent = stream_len
    /\ acks = SelectSeq(acks, LAMBDA a : a # CHANNEL_CLOSE_TIMESTAMP)
    /\ SensorSentinel

\* and then it finishes the stream
StreamFinish == sent = stream_len /\ SensorFinish

NextStream ==
    \/ \E r \in DataRecords : SensorSend(r)
    \/ StreamSentinel
    \/ StreamFinish
    \/ RecvSentinel(TRUE)
    \/ RecvRecord("ok")
    \/ RecvFinished(TRUE)
    \/ CountRecord
    \/ StoreTime
    \/ CheckRotation(TRUE)
    \/ RotSend(TRUE)
    \/ RotReset
    \/ RotNotify
    \/ RotFlush(TRUE)
    \/ HandlerNotified

SpecStream == InitStream /\ [][NextStream]_vars

\* C5 as claimed: the scenario yields one ack at record ACK_ROTATION_CNT and,
\* when the dispatcher sees the stream finished, a terminal ack.
C5_TerminalAckOnClose ==
    [][/\ (dpc = "rot_send" /\ dpc' = "rot_reset") => Processed = ACK_ROTATION_CNT
       /\ (dpc = "recv" /\ dpc' = "ok") => AckEmitted]_vars

\* C5 as amended: one ack, written when the dispatcher has taken
\* ACK_ROTATION_CNT records and carrying the timestamp of the last of them;
\* the end of the stream writes no ack; the only later ack is the -1 that
\* answers a sentinel; at the end every record is written and flushed and the
\* last record is counted but not acknowledged by a rotation.
C5_RotationScenario ==
    /\ [](dpc = "ok" => /\ Processed = ScenarioRecords
                        /\ Len(NonSentinel(acks)) = 1
                        /\ acks[1] # CHANNEL_CLOSE_TIMESTAMP
                        /\ Len(acks) <= 2
                        /\ received = written
                        /\ flushed = written
                        /\ ack_cnt = 1)
    /\ [][/\ (dpc = "rot_send" /\ dpc' = "rot_reset")
               => (Processed = ACK_ROTATION_CNT /\ acks' = <<cur>>)
          /\ (dpc = "recv" /\ dpc' = "ok") => acks' = acks]_vars

\* the stream of ACK_ROTATION_CNT + 1 records was closed without a sentinel
C5_Witness ==
    /\ dpc = "ok"
    /\ sent = ScenarioRecords
    /\ Len(acks) = 1

(***************************************************************************)
(* SpecRoster: sensors connect, open a sub-stream, disconnect, reconnect,  *)
(* and the engine shuts down; the sub-stream of the first connection that  *)
(* opens one carries up to RosterRecords records.                          *)
(***************************************************************************)
RosterRecords == 1

InitRosterSpec ==
    /\ InitIngest
    /\ stream_len = RosterRecords
    /\ InitRoster
    /\ InitPeerLayer
    /\ InitStore

\* the sub-stream exists once handle_request was spawned for it
StreamOpen == stream_of # 0

RosterRecord == [kind |-> "record", ts |-> 1, body |-> "data"]

\* the sensor of the sub-stream sends a record
StreamSend == StreamOpen /\ SensorSend(RosterRecord)

\* and the dispatcher appends it
StreamRecv == StreamOpen /\ RecvRecord("ok")

NextRoster ==
    \/ \E c \in ConnIds, a \in Agents, s \in Sensors, ok \in BOOLEAN : ConnAccept(c, a, s, ok)
    \/ \E c \in ConnIds : ConnSendConnected(c)
    \/ \E c \in ConnIds : ConnAcceptStream(c)
    \/ \E c \in ConnIds : RemoteClose(c)
    \/ \E c \in ConnIds : ConnDisconnected(c)
    \/ \E c \in ConnIds : ConnShutdown(c)
    \/ \E ok \in BOOLEAN : CtrlConnected(ok)
    \/ \E ok \in BOOLEAN : CtrlDisconnected(ok)
    \/ CtrlRemovePacket
    \/ \E f \in SUBSET Sensors : CtrlTick(f)
    \/ PeerNotified
    \/ SetShutdown
    \/ EndpointClose
    \/ StreamSend
    \/ StreamRecv

SpecRoster == InitRosterSpec /\ [][NextRoster]_vars


(***************************************************************************)
(* Properties of the sensor roster.                                        *)
(***************************************************************************)

\* the agent name has "reproduce" as one of its parts
ReplayAgent(agent) == \E i \in 1..Len(agent) : agent[i] = "reproduce"

\* no roster event is in flight: the channel is empty, the controller is
\* between two events, and no connection task is about to send an event
Quiescent ==
    /\ rx = <<>>
    /\ ctrl_pc = "idle"
    /\ \A c \in ConnIds : /\ conn_st[c] \in {"new", "serving", "done"}
                          /\ conn_st[c] = "serving" => link[c] = "open"

\* the sensors with at least one open non-replay connection
LiveSensors ==
    {conn_cert[c].source :
        c \in {d \in ConnIds : link[d] = "open" /\ ~ReplayAgent(conn_cert[d].agent)}}

\* C7: in every quiescent state of an engine that is not shutting down, the
\* live roster is exactly the set of sensors with an open non-replay
\* connection.
C7_RosterMatchesConnections ==
    (Quiescent /\ ~shutdown_signal) => DOMAIN sources = LiveSensors

\* the controller takes a non-replay event of the given kind from the channel
TakesLive(state) ==
    /\ rx # <<>>
    /\ rx' = Tail(rx)
    /\ Head(rx).state = state
    /\ ~Head(rx).rep

\* C8: when the controller has processed a non-replay Connected, the sensor is
\* in the live roster with the event's timestamp and the peer layer (if the
\* engine has one) holds a notification; when it has processed a non-replay
\* Disconnected, the sensor is in neither the live roster nor the
\* packet-connection map and the peer layer holds a notification.
C8_ControllerEffects ==
    [][/\ TakesLive("Connected")
            => /\ Head(rx).source \in DOMAIN sources'
               /\ sources'[Head(rx).source] = Head(rx).ts
               /\ has_notify => notify_source'
               /\ ctrl_pc' = "idle"
       /\ TakesLive("Disconnected")
            => /\ Head(rx).source \notin DOMAIN sources'
               /\ ctrl_pc' = "remove_packet"
               /\ ctrl_key' = Head(rx).source
       /\ (ctrl_pc = "remove_packet" /\ ctrl_pc' # ctrl_pc)
            => /\ ctrl_pc' = "idle"
               /\ ctrl_key \notin DOMAIN sources'
               /\ ctrl_key \notin DOMAIN packet_sources'
               /\ has_notify => notify_source']_vars

\* a sensor connected and disconnected, both events were processed, and the
\* peer layer holds the notification
C8_Witness ==
    /\ Quiescent
    /\ has_notify
    /\ notify_source
    /\ \E c \in ConnIds :
          /\ conn_st[c] = "done"
          /\ conn_cert[c] # NoCert
          /\ ~ReplayAgent(conn_cert[c].agent)
          /\ conn_cert[c].source \in DOMAIN source_store
          /\ conn_cert[c].source \notin DOMAIN sources
          /\ conn_cert[c].source \notin DOMAIN packet_sources

\* C9: no step of a replay connection's task and no replay event processed by
\* the controller changes the live roster, the packet-connection map or the
\* peer notification; the events of a replay connection are marked replay;
\* processing one writes its timestamp to the persistent store (unless the
\* store's insert fails, which is only logged) and ends the processing.
C9_ReplayOutsideRoster ==
    [][/\ \A c \in ConnIds :
            (conn_st'[c] # conn_st[c] /\ ReplayAgent(conn_cert'[c].agent))
               => /\ UNCHANGED <<packet_sources, sources, notify_source>>
                  /\ Len(rx') > Len(rx) => rx'[Len(rx')].rep
       /\ (rx # <<>> /\ rx' = Tail(rx) /\ Head(rx).rep)
            => /\ UNCHANGED <<packet_sources, sources, notify_source, ctrl_pc>>
               /\ \/ source_store' = Put(source_store, Head(rx).source, Head(rx).ts)
                  \/ source_store' = source_store]_vars

\* a replay connection came and went: its events reached the persistent store,
\* its record was written, and the roster never held it
C9_Witness ==
    /\ Quiescent
    /\ written # {}
    /\ stream_of # 0
    /\ conn_st[stream_of] = "done"
    /\ ReplayAgent(conn_cert[stream_of].agent)
    /\ conn_cert[stream_of].source \in DOMAIN source_store
    /\ source_store[conn_cert[stream_of].source] > 1
    /\ sources = EmptyMap
    /\ packet_sources = EmptyMap
    /\ ~notify_source

(***************************************************************************)
(* SpecPeer: two engines connect to each other.                            *)
(***************************************************************************)
InitPeerSpec ==
    /\ InitIngest
    /\ stream_len = 0
    /\ InitRoster
    /\ has_notify = TRUE
    /\ InitPeer
    /\ InitStore

NextPeer ==
    \/ \E k \in PeerConnIds : ClientConnect(k)
    \/ \E k \in PeerConnIds, r \in Roles : CheckDuplicate(k, r)
    \/ \E k \in PeerConnIds : ClientRequest(k)
    \/ \E k \in PeerConnIds : ServerRespond(k)
    \/ \E k \in PeerConnIds : ClientReceive(k)
    \/ \E k \in PeerConnIds, r \in Roles : UpdateLists(k, r)
    \/ \E k \in PeerConnIds, r \in Roles : SnapshotPeers(k, r)
    \/ \E k \in PeerConnIds, r \in Roles, ok \in BOOLEAN : WriteConfig(k, r, ok)
    \/ \E k \in PeerConnIds, r \in Roles : ShareLists(k, r)
    \/ \E k \in PeerConnIds, r \in Roles : InsertConn(k, r)
    \/ \E k \in PeerConnIds, r \in Roles : \E m \in inbox[k][r] : HandleRequest(k, r, m)
    \/ \E e \in Engines, p \in PeerNames : SpawnDial(e, p)
    \/ \E k \in PeerConnIds, r \in Roles : LoopClosed(k, r)
    \/ \E k \in PeerConnIds, r \in Roles : PeerShutdown(k, r)

SpecPeer == InitPeerSpec /\ [][NextPeer]_vars

\* no engine is shutting down, and every task of the peer layer has returned
\* or waits in its loop on an open connection
PeerQuiescent ==
    \A k \in PeerConnIds, r \in Roles :
        /\ ppc[k][r] \in {"idle", "loop", "done"}
        /\ ppc[k][r] = "loop" => pconn[k] = "open"

Surviving == {k \in PeerConnIds : pconn[k] = "open"}

\* C10: when both engines have dialled each other and their tasks have come to
\* rest, exactly one of the two connections is open, and it is the connection
\* each engine's peer_conn records for the other engine.
C10_OneSurvivingConnection ==
    (PeerQuiescent /\ \A k \in PeerConnIds : pconn[k] # "none")
        => \E k \in PeerConnIds :
              /\ Surviving = {k}
              /\ peer_conn["A"] = Put(EmptyMap, "B", k)
              /\ peer_conn["B"] = Put(EmptyMap, "A", k)

(***************************************************************************)
(* SpecPeerFair: SpecPeer with every task of the two engines scheduled     *)
(* again and again by its runtime; the shutdown of an engine is left to    *)
(* its environment.                                                        *)
(***************************************************************************)
PeerFairness ==
    /\ \A k \in PeerConnIds :
          /\ WF_vars(ClientConnect(k))
          /\ WF_vars(ClientRequest(k))
          /\ WF_vars(ServerRespond(k))
          /\ WF_vars(ClientReceive(k))
    /\ \A k \in PeerConnIds, r \in Roles :
          /\ WF_vars(CheckDuplicate(k, r))
          /\ WF_vars(UpdateLists(k, r))
          /\ WF_vars(SnapshotPeers(k, r))
          /\ WF_vars(\E ok \in BOOLEAN : WriteConfig(k, r, ok))
          /\ WF_vars(ShareLists(k, r))
          /\ WF_vars(InsertConn(k, r))
          /\ WF_vars(LoopClosed(k, r))

SpecPeerFair == InitPeerSpec /\ [][NextPeer]_vars /\ PeerFairness

\* both sides of connection k have passed the duplicate check and are in the
\* initial exchange
InExchange(k) ==
    /\ ppc[k]["client"] \in {"exchange", "await"}
    /\ ppc[k]["server"] = "exchange"

\* both sides hold the list the other side sent
Exchanged(k) ==
    /\ ppc[k]["client"] \notin {"spawned", "check", "exchange", "await", "done"}
    /\ ppc[k]["server"] \notin {"idle", "check", "exchange", "done"}

\* C11: once the client side and the server side of a connection are both in
\* the initial exchange, the exchange completes on both sides, unless the
\* connection is closed meanwhile.
C11_ExchangeCompletes ==
    \A k \in PeerConnIds : InExchange(k) ~> (Exchanged(k) \/ pconn[k] = "closed")

\* an exchange has completed on an open connection: each side holds what the
\* other side sent
C11_Witness ==
    \E k \in PeerConnIds :
        /\ pconn[k] = "open"
        /\ Exchanged(k)
        /\ req[k].sent
        /\ resp[k].sent
        /\ rcv[k]["server"].list = req[k].list
        /\ rcv[k]["client"].list = resp[k].list

(***************************************************************************)
(* SpecGossip: the two engines and a third engine that dials B with a peer *)
(* list of its own. B starts with no configured peer; no engine is shut    *)
(* down and no write of a configuration document fails.                    *)
(***************************************************************************)
InitGossip ==
    /\ InitPeerSpec
    /\ peer_list["B"] = {}

NextGossip ==
    \/ \E k \in PeerConnIds : ClientConnect(k)
    \/ \E k \in ThirdConnIds : ThirdConnect(k)
    \/ \E k \in ThirdConnIds, l \in ThirdLists : ThirdRequest(k, l)
    \/ \E k \in AllConnIds, r \in Roles : CheckDuplicate(k, r)
    \/ \E k \in PeerConnIds : ClientRequest(k)
    \/ \E k \in AllConnIds : ServerRespond(k)
    \/ \E k \in PeerConnIds : ClientReceive(k)
    \/ \E k \in AllConnIds, r \in Roles : UpdateLists(k, r)
    \/ \E k \in AllConnIds, r \in Roles : SnapshotPeers(k, r)
    \/ \E k \in AllConnIds, r \in Roles : WriteConfig(k, r, TRUE)
    \/ \E k \in AllConnIds, r \in Roles : ShareLists(k, r)
    \/ \E k \in AllConnIds, r \in Roles : InsertConn(k, r)
    \/ \E k \in AllConnIds, r \in Roles : \E m \in inbox[k][r] : HandleRequest(k, r, m)
    \/ \E e \in Engines : \E h \in handlers[e] : HandlerSnapshot(e, h)
    \/ \E e \in Engines : \E h \in handlers[e] : HandlerWrite(e, h, TRUE)
    \/ \E e \in Engines, p \in PeerNames : SpawnDial(e, p)

SpecGossip == InitGossip /\ [][NextGossip]_vars

\* the peers engine e inserts in this step
Learned(e) == peer_list'[e] \ peer_list[e]

\* the message that carries the peer set engine e has after this step
PeerSetMsg(e) == [type |-> UpdatePeerList, list |-> peer_list'[e]]

\* a task of engine e leaves update_to_new_peer_list after writing the
\* configuration document: a connection task, which goes on to share the
\* peer list, or a handle_request task, which returns
ConnTaskWrote(e) ==
    \E k \in AllConnIds, r \in Roles :
        Owner(k, r) = e /\ ppc[k][r] = "write" /\ ppc'[k][r] = "share"

HandlerReturned(e) ==
    \E h \in handlers[e] : h.pc = "write" /\ handlers'[e] = handlers[e] \ {h}

\* C12: an engine that receives a peer list with a peer it does not know and
\* that is not at its own IP address inserts the peer and sends it to the dial
\* channel, never inserts a peer at its own IP address, and the task that
\* inserted it writes the peer set to the configuration document and does not
\* end before the peer set has been sent to every connected peer.
C12_NewPeerGossip ==
    [][\A e \in Engines :
          /\ \A p \in Learned(e) : IpOf(p) # IpOf(e) /\ BagIn(p, dial_queue'[e])
          /\ Learned(e) # {} =>
                \/ \E k \in AllConnIds, r \in Roles :
                      Owner(k, r) = e /\ ppc'[k][r] = "snapshot" /\ ppc[k][r] = "update"
                \/ WritingHandler \in handlers'[e]
          /\ ConnTaskWrote(e) /\ ~write_err'[e] => config_peers'[e] \subseteq peer_list'[e]
          /\ HandlerReturned(e) =>
                \A c \in OpenConns(e) : PeerSetMsg(e) \in inbox'[c[1]][c[2]]
      ]_vars

\* no task of engine e is inside update_to_new_peer_list, and no write of its
\* configuration document has failed
UpdatesFinished(e) ==
    /\ \A k \in AllConnIds, r \in Roles :
          Owner(k, r) = e => ppc[k][r] \notin {"update", "snapshot", "write"}
    /\ handlers[e] = {}
    /\ ~write_err[e]

\* C13: whenever the peer-list updates of an engine have finished and their
\* writes have succeeded, the peer list of its configuration document is its
\* in-memory peer set.
C13_ConfigMatchesPeerSet ==
    \A e \in Engines : UpdatesFinished(e) => config_peers[e] = peer_list[e]

(***************************************************************************)
(* SpecDial: the client_connection tasks of the two engines dial, and      *)
(* connect() fails up to MaxDials times for each of them.                  *)
(***************************************************************************)
NextDial ==
    \/ \E k \in PeerConnIds : ClientConnect(k)
    \/ \E k \in PeerConnIds, err \in DialErrors : DialFail(k, err)
    \/ DialTick
    \/ \E k \in PeerConnIds : DialRetry(k)

SpecDial == InitPeerSpec /\ [][NextDial]_vars

\* connect() of the task of connection k returns an error in this step
DialFailed(k) == dials'[k] = dials[k] + 1 /\ dial_err'[k] # "none"

\* the task of connection k calls connect() in this step
Dials(k) == dials'[k] = dials[k] + 1

\* C14: after a dial that failed with connection-closed, application-closed,
\* reset or timed-out the task dials again, and not before
\* PEER_RETRY_INTERVAL seconds have passed; a dial that fails with any other
\* error ends the task, which makes no further attempt.
C14_DialRetryPolicy ==
    [][\A k \in PeerConnIds :
          /\ DialFailed(k) /\ dial_err'[k] \in RetriedErrors
                => ppc'[k]["client"] = "sleep" /\ slept'[k] = 0
          /\ Dials(k) /\ dial_err[k] \in RetriedErrors => slept[k] >= PEER_RETRY_INTERVAL
          /\ DialFailed(k) /\ dial_err'[k] \notin RetriedErrors
                => ppc'[k]["client"] = "done"
          /\ Dials(k) => dial_err[k] \in RetriedErrors \cup {"none"}
      ]_vars

(***************************************************************************)
(* SpecSources: a sensor connects to engine B while A and the third engine *)
(* dial B. Every task is scheduled again and again by its runtime.         *)
(***************************************************************************)
\* a sensor connects to B: handle_connection of its connection
SensorConnects == ConnAccept(1, <<"piglet">>, "src 1", TRUE)

\* the connection A dials
FirstConnIds == {1}

ServedConnIds == FirstConnIds \cup ThirdConnIds

NextSources ==
    \/ SensorConnects
    \/ \E c \in ConnIds : ConnSendConnected(c)
    \/ \E ok \in BOOLEAN : CtrlConnected(ok)
    \/ \E k \in FirstConnIds : ClientConnect(k)
    \/ \E k \in ThirdConnIds : ThirdConnect(k)
    \/ \E k \in ThirdConnIds, l \in ThirdLists : ThirdRequest(k, l)
    \/ \E k \in ServedConnIds, r \in Roles : CheckDuplicate(k, r)
    \/ \E k \in FirstConnIds : ClientRequest(k)
    \/ \E k \in ServedConnIds : ServerRespond(k)
    \/ \E k \in FirstConnIds : ClientReceive(k)
    \/ \E k \in ServedConnIds, r \in Roles : UpdateLists(k, r)
    \/ \E k \in ServedConnIds, r \in Roles : SnapshotPeers(k, r)
    \/ \E k \in ServedConnIds, r \in Roles : WriteConfig(k, r, TRUE)
    \/ \E k \in ServedConnIds, r \in Roles : ShareLists(k, r)
    \/ \E k \in ServedConnIds, r \in Roles : InsertConn(k, r)
    \/ \E k \in ServedConnIds, r \in Roles : \E m \in inbox[k][r] : HandleRequest(k, r, m)
    \/ \E k \in ServedConnIds, r \in Roles : SourceBroadcast(k, r)

SourcesFairness ==
    /\ WF_vars(SensorConnects)
    /\ \A c \in ConnIds : WF_vars(ConnSendConnected(c))
    /\ WF_vars(\E ok \in BOOLEAN : CtrlConnected(ok))
    /\ \A k \in FirstConnIds :
          /\ WF_vars(ClientConnect(k))
          /\ WF_vars(ClientRequest(k))
          /\ WF_vars(ClientReceive(k))
    /\ \A k \in ThirdConnIds : WF_vars(\E l \in ThirdLists : ThirdRequest(k, l))
    /\ \A k \in ServedConnIds :
          /\ WF_vars(ServerRespond(k))
          /\ \A r \in Roles :
                /\ WF_vars(CheckDuplicate(k, r))
                /\ WF_vars(UpdateLists(k, r))
                /\ WF_vars(SnapshotPeers(k, r))
                /\ WF_vars(WriteConfig(k, r, TRUE))
                /\ WF_vars(ShareLists(k, r))
                /\ WF_vars(InsertConn(k, r))
                /\ WF_vars(\E m \in inbox[k][r] : HandleRequest(k, r, m))
                /\ WF_vars(SourceBroadcast(k, r))

SpecSources == InitGossip /\ [][NextSources]_vars /\ SourcesFairness

\* A is a connected peer of B: the initial exchange on the connection A
\* dialled has completed on both sides and the connection is open
ConnectedPeer(k) ==
    /\ pconn[k] = "open"
    /\ ppc[k]["client"] \in {"update", "snapshot", "write", "share", "insert", "loop"}
    /\ ppc[k]["server"] \in {"update", "snapshot", "write", "share", "insert", "loop"}

\* the peer at the other end of connection k has been sent B's current roster:
\* in the initial exchange or in an UpdateSourceList message
HasRoster(k) ==
    \/ resp[k].sent /\ resp[k].sources = DOMAIN sources
    \/ [type |-> UpdateSourceList, list |-> DOMAIN sources] \in inbox[k]["client"]
    \/ /\ "B" \in DOMAIN peer_sources[Owner(k, "client")]
       /\ peer_sources[Owner(k, "client")]["B"] = DOMAIN sources

\* C15: once the roster of B has changed and the peer layer has been
\* notified, every connected peer is eventually sent the complete current
\* roster.
C15_RosterReachesPeers ==
    \A k \in FirstConnIds :
        (ConnectedPeer(k) /\ DOMAIN sources # {}) ~> (HasRoster(k) \/ pconn[k] # "open")

(***************************************************************************)
(* SpecStore: records are appended to the conn column family and forward   *)
(* range scans are made over it.                                           *)
(***************************************************************************)
NextStore ==
    \/ \E s \in StoreSensors, t \in TsSamples, e \in RawEvents : StoreAppend(s, t, e)
    \/ \E s \in StoreSensors, t1 \in ScanTimes, t2 \in ScanTimes : ConnIter(s, t1, t2)
    \/ \E s \in StoreSensors, t1 \in ScanTimes, t2 \in ScanTimes : ConnIterReverse(s, t1, t2)
    \/ IterNext

SpecStore == InitPeerSpec /\ [][NextStore]_vars

\* the keys of the records of the scanned sensor whose stored timestamp is in
\* [t1, t2)
InRange == {k \in DOMAIN IterDb : /\ IterDb[k].source = iter.source
                                  /\ iter.t1 <= IterDb[k].ts
                                  /\ IterDb[k].ts < iter.t2}

\* C16: a finished forward scan of the conn column family from
\* lower_bound_key(s, t1) to upper_bound_key(s, t2) has yielded exactly the
\* records of s with a timestamp in [t1, t2), in ascending order of timestamp.
C16_ScanReturnsRange ==
    (iter.state = "done" /\ iter.cf = "conn" /\ iter.direction = "Forward") =>
        /\ {iter.out[i].key : i \in 1..Len(iter.out)} = InRange
        /\ \A i \in 1..Len(iter.out), j \in 1..Len(iter.out) :
              i < j => iter.out[i].value.ts < iter.out[j].value.ts

\* C17: the lower bound of a scan of sensor p from instant t precedes the key
\* of every record of p with timestamp t and succeeds the key of every record
\* of p with a timestamp before t.
C17_LowerBoundSeparates ==
    (iter.state # "none" /\ iter.cf = "conn" /\ iter.direction = "Forward") =>
        \A r \in ingested :
            r.source = iter.source =>
                /\ r.ts = iter.t1 => Less(iter.from, StorageKey(r.source, r.ts))
                /\ r.ts < iter.t1 => Less(StorageKey(r.source, r.ts), iter.from)

\* C18: among the stored keys of one sensor the lexicographic order of the
\* bytes is the chronological order of the timestamps, whatever signed
\* timestamps the records were ingested with.
C18_KeyOrderIsChronological ==
    \A k1, k2 \in DOMAIN conn_db :
        conn_db[k1].source = conn_db[k2].source =>
            (Less(k1, k2) <=> conn_db[k1].ts < conn_db[k2].ts)

\* the records a scan of the sensor over [t1, t2) straddles
Straddled == {r \in ingested : r.source = iter.source /\ iter.t1 <= r.ts /\ r.ts < iter.t2}

\* C19: a record ingested with a timestamp stays in the store as it was
\* ingested whatever is ingested after it, and a finished scan that straddles
\* its timestamp returns its bytes.
C19_IngestedRecordIsReturned ==
    /\ \A r \in ingested :
          /\ StorageKey(r.source, r.ts) \in DOMAIN conn_db
          /\ conn_db[StorageKey(r.source, r.ts)] = r
    /\ (iter.state = "done" /\ iter.cf = "conn" /\ iter.direction = "Forward") =>
          \A r \in Straddled : \E i \in 1..Len(iter.out) : iter.out[i].value = r

(***************************************************************************)
(* The packet column family: packets are stored under the sensor, the      *)
(* timestamp of the request they answer and their own timestamp, and the   *)
(* packets of one request are scanned.                                     *)
(***************************************************************************)
\* the request timestamps packets are stored with
ReqSamples == {0, 1}

\* Packet::packet_timestamp
PacketTimes == {-1, 0, 1}

\* PacketFilter::request_time: a DateTime<Utc>, whose range is wider than the
\* nanoseconds of an i64
RequestTimes == {0, 1, TsMax + 1}

\* the packet filter of the model: source and request_time, no packet_time
PacketFilter(source, request_time) == [source |-> source, request_time |-> request_time]

\* Option<Vec<u8>>
NoKey == [some |-> FALSE, bytes |-> <<>>]

SomeKey(b) == [some |-> TRUE, bytes |-> b]

\* DateTime::timestamp_nanos_opt: None out of the range of an i64
timestamp_nanos_opt(t) == IF TsMin <= t /\ t <= TsMax THEN SomeTime(t) ELSE NoTime

\* KeyExtractor::get_start_key
get_start_key(filter) == AsBytes(filter.source)

\* KeyExtractor::get_mid_key: Some(request_time.timestamp_nanos_opt()?.to_be_bytes())
get_mid_key(filter) ==
    IF timestamp_nanos_opt(filter.request_time).some
    THEN SomeKey(ToBeBytes(timestamp_nanos_opt(filter.request_time).ns))
    ELSE NoKey

\* KeyExtractor::get_range_end_key: (None, None) without a packet_time
get_range_end_key(filter) == <<NoTime, NoTime>>

\* insert_packet: source, NUL, req_timestamp, NUL, pk_timestamp
PacketKey(source, req_timestamp, pk_timestamp) ==
    AsBytes(source) \o <<0>> \o ToBeBytes(req_timestamp) \o <<0>> \o ToBeBytes(pk_timestamp)

\* StorageKey::builder().start_key(start).mid_key(mid): the segments before
\* the last one, the middle one only if there is one
KeyPrefix(start, mid) == IF mid.some THEN start \o <<0>> \o mid.bytes ELSE start

\* handle_data, RawEventKind::Packet, and insert_packet of the tests
InsertPacket(source, req_timestamp, pk_timestamp) ==
    /\ iter.state # "open"
    /\ Cardinality(DOMAIN packet_db) < MaxPackets
    /\ packet_db' = Put(packet_db, PacketKey(source, req_timestamp, pk_timestamp),
                        [source |-> source, req |-> req_timestamp, pkt |-> pk_timestamp])
    /\ iter' = NoIter
    /\ UNCHANGED <<outsideStore, kindVars, retainVars, conn_db, ingested>>

\* the packets resolver: the forward boundary iterator of the packet store
\* from the lower bound to the upper bound of the keys of the filter
PacketScan(filter) ==
    /\ iter.state # "open"
    /\ iter' = [state |-> "open", cf |-> "packet", source |-> filter.source,
                req |-> filter.request_time, direction |-> "Forward",
                from |-> lower_bound_key(KeyPrefix(get_start_key(filter), get_mid_key(filter)),
                                         get_range_end_key(filter)[1]),
                boundary |-> upper_bound_key(KeyPrefix(get_start_key(filter),
                                                       get_mid_key(filter)),
                                             get_range_end_key(filter)[2]),
                last |-> <<>>, out |-> <<>>]
    /\ UNCHANGED <<outsideStore, kindVars, retainVars, conn_db, packet_db, ingested>>

\* the next pair of the forward boundary iterator: the keys lie within
\* [from, to), and the iterator stops the first time a key reaches `to`
BoundaryIterNext ==
    /\ iter.state = "open"
    /\ iter.cf = "packet"
    /\ IF InnerRest = {}
       THEN iter' = [iter EXCEPT !.state = "done"]
       ELSE LET key == InnerNext
            IN IF ~Less(key, iter.boundary)
               THEN iter' = [iter EXCEPT !.state = "done"]
               ELSE iter' = [iter EXCEPT !.last = key,
                                         !.out = Append(@, [key |-> key, value |-> IterDb[key]])]
    /\ UNCHANGED <<outsideStore, kindVars, retainVars, conn_db, packet_db, ingested>>

NextPacket ==
    \/ \E s \in StoreSensors, r \in ReqSamples, t \in PacketTimes : InsertPacket(s, r, t)
    \/ \E s \in StoreSensors, r \in RequestTimes : PacketScan(PacketFilter(s, r))
    \/ BoundaryIterNext

SpecPacket == InitPeerSpec /\ [][NextPacket]_vars

\* the packets stored under the sensor and the request timestamp of the scan
Requested == {k \in DOMAIN packet_db : /\ packet_db[k].source = iter.source
                                        /\ packet_db[k].req = iter.req}

\* C20: a finished packet scan for a sensor and a request time has returned
\* exactly the packets stored under that sensor and that request timestamp, in
\* ascending order of the packet timestamps, and nothing of an empty store.
C20_PacketScanIsScoped ==
    (iter.state = "done" /\ iter.cf = "packet") =>
        /\ {iter.out[i].key : i \in 1..Len(iter.out)} = Requested
        /\ \A i, j \in 1..Len(iter.out) :
              i < j => iter.out[i].value.pkt < iter.out[j].value.pkt
        /\ packet_db = EmptyMap => iter.out = <<>>

(***************************************************************************)
(* The retention sweeper: one turn of the loop of retain_periodically      *)
(* over the network families (the "conn" family stands for them) and the   *)
(* generic-log family, for the sensors of the sources store.               *)
(***************************************************************************)
\* NaiveDateTime::from_timestamp(61, 0), in the time unit of the model
from_timestamp == 61

\* the timestamps of the records the sweeper finds
RetainSamples == {0, 60, 61, 99, 100}

\* Utc::now().timestamp_nanos() - retention_duration
Cutoffs == {-1, 60, 100}

\* Log::kind, the middle segment of the key of a generic-log record
LogKind == <<107>>

\* handle_data, RawEventKind::Log: sensor, NUL, kind, NUL, timestamp
LogKey(source, timestamp) ==
    AsBytes(source) \o <<0>> \o LogKind \o <<0>> \o ToBeBytes(timestamp)

\* the unsigned value of big-endian bytes
RECURSIVE BeValue(_)
BeValue(b) == IF b = <<>> THEN 0 ELSE BeValue(SubSeq(b, 1, Len(b) - 1)) * 256 + b[Len(b)]

\* i64::from_be_bytes(key[(key.len() - TIMESTAMP_SIZE)..])
StoreDuration(key) ==
    LET u == BeValue(SubSeq(key, Len(key) - TsBytes + 1, Len(key)))
    IN IF u >= TsModulus \div 2 THEN u - TsModulus ELSE u

\* handle_data, store.append of a generic-log record
LogAppend(source, timestamp, raw_event) ==
    /\ Cardinality(DOMAIN log_db) < MaxLogs
    /\ log_db' = Put(log_db, LogKey(source, timestamp),
                     [source |-> source, ts |-> timestamp, raw_event |-> raw_event])
    /\ swept' = NoSweep
    /\ UNCHANGED <<outsideStore, kindVars, conn_db, packet_db, ingested, iter>>

\* `from` of the range delete: source, NUL, from_timestamp
RetainFrom(source) == AsBytes(source) \o <<0>> \o ToBeBytes(from_timestamp)

\* `to` of the range delete: source, NUL, standard_duration
RetainTo(source, standard_duration) ==
    AsBytes(source) \o <<0>> \o ToBeBytes(standard_duration)

\* delete_range_cf(cf, from, to): the keys in [from, to)
InDeleteRange(key, from, to) == ~Less(key, from) /\ Less(key, to)

\* the filter of the log sweep with >= for >
LogExpiredInclusive(standard_duration, store_duration) == standard_duration >= store_duration

\* the filter of the log sweep: standard_duration > store_duration
LogExpired(standard_duration, store_duration) == standard_duration > store_duration

\* prefix_iterator_cf(log_store.cf, source): the iterator is positioned at the
\* first key not below `source`; the column families are opened without a
\* prefix extractor, so it runs on to the end of the family
PrefixIterator(source) == {k \in DOMAIN log_db : ~Less(k, AsBytes(source))}

\* a map without the keys of a set
Without(m, keys) == [k \in DOMAIN m \ keys |-> m[k]]

\* one turn of the loop of retain_periodically
RetainSweep(standard_duration) ==
    /\ iter.state # "open"
    /\ conn_db' = Without(conn_db,
                     {k \in DOMAIN conn_db : \E source \in DOMAIN source_store :
                         InDeleteRange(k, RetainFrom(source),
                                       RetainTo(source, standard_duration))})
    /\ log_db' = Without(log_db,
                     {k \in DOMAIN log_db : \E source \in DOMAIN source_store :
                         /\ k \in PrefixIterator(source)
                         /\ LogExpired(standard_duration, StoreDuration(k))})
    /\ swept' = [done |-> TRUE, cutoff |-> standard_duration,
                 conn |-> conn_db, log |-> log_db]
    /\ iter' = NoIter
    /\ UNCHANGED <<outsideStore, kindVars, packet_db, ingested>>

\* the sources store holds the sensor "src 1" and not the sensor "src 2"
InitRetain == InitIngest /\ Init

NextRetain ==
    \/ \E s \in StoreSensors, t \in RetainSamples : StoreAppend(s, t, "event a")
    \/ \E s \in StoreSensors, t \in RetainSamples : LogAppend(s, t, "event a")
    \/ \E c \in Cutoffs : RetainSweep(c)

SpecRetain == InitRetain /\ [][NextRetain]_vars

\* the records of the sensors of the sources store in a family
OfRoster(db) == {k \in DOMAIN db : db[k].source \in DOMAIN source_store}

Within ==
    IF iter.direction = "Reverse"
    THEN {k \in DOMAIN IterDb : Less(iter.boundary, k) /\ ~Less(iter.from, k)}
    ELSE {k \in DOMAIN IterDb : ~Less(k, iter.from) /\ Less(k, iter.boundary)}

\* C22: a range iterator yields only pairs whose keys lie within [from, to)
\* forward and within (to, from] in reverse, and it has ended exactly when the
\* next key would cross the boundary: a finished iterator has yielded every
\* key between its ends.
C22_IteratorStaysInRange ==
    (iter.state # "none" /\ iter.cf = "conn") =>
        /\ \A i \in 1..Len(iter.out) : iter.out[i].key \in Within
        /\ iter.state = "done" => \A k \in Within : \E i \in 1..Len(iter.out) : iter.out[i].key = k

\* the task of role r on connection k is at its duplicate check and the host
\* name of the remote end is a key of the peer-connection map of its engine
IsDuplicate(k, r) ==
    /\ ppc[k][r] = "check"
    /\ Remote(k, r) \in DOMAIN peer_conn[Owner(k, r)]

\* C23: the step a connection task takes from its duplicate check, when the
\* remote host name is already in the peer-connection map, closes the new
\* connection and ends the task, which has sent nothing of the initial
\* exchange, and leaves the peer-connection map, the peer set and the
\* peer-source map as they were; a task that has ended stays ended.
C23_DuplicateIsClosed ==
    [][\A k \in PeerConnIds, r \in Roles :
          /\ (IsDuplicate(k, r) /\ ppc'[k][r] # "check") =>
                /\ pconn'[k] = "closed"
                /\ ppc'[k][r] = "done"
                /\ IF r = "client" THEN ~req'[k].sent ELSE ~resp'[k].sent
                /\ UNCHANGED <<peer_conn, peer_list, peer_sources>>
          /\ ppc[k][r] = "done" => ppc'[k][r] = "done"]_vars

\* a task has ended at its duplicate check: its connection is closed, no
\* message of the exchange was sent by it, and the peer-connection map of its
\* engine holds the remote host name with the other connection
C23_Witness ==
    \E k \in PeerConnIds, r \in Roles :
        /\ ppc[k][r] = "done"
        /\ pconn[k] = "closed"
        /\ IF r = "client" THEN ~req[k].sent ELSE ~resp[k].sent
        /\ Remote(k, r) \in DOMAIN peer_conn[Owner(k, r)]
        /\ peer_conn[Owner(k, r)][Remote(k, r)] # k

\* C24: a dispatcher that ran when the shutdown flag was set and has returned
\* without an error has called store.flush() exactly once since the flag was
\* set, and has cancelled its interval task.
C24_ShutdownFlushesOnce ==
    (at_shutdown.running /\ dpc = "ok") =>
        /\ at_shutdown.flushes = 1
        /\ handler_aborted

(***************************************************************************)
(* SpecBacklog: the engine with the channel of roster events full.  Fifty  *)
(* replay connections of sensor "src 2" have come and gone, and            *)
(* check_sources_conn has not yet taken any of their events, when the      *)
(* connections of the model arrive.                                        *)
(***************************************************************************)
Backlog ==
    [i \in 1..SOURCE_CHANNEL_SIZE |->
        SourceInfo("src 2", 1, IF i % 2 = 1 THEN "Connected" ELSE "Disconnected", TRUE)]

InitBacklog ==
    /\ InitIngest
    /\ stream_len = RosterRecords
    /\ conn_st = [c \in ConnIds |-> "new"]
    /\ conn_cert = [c \in ConnIds |-> NoCert]
    /\ link = [c \in ConnIds |-> "none"]
    /\ dispatchers = {}
    /\ stream_of = 0
    /\ endpoint = "open"
    /\ rx = Backlog
    /\ ctrl_pc = "idle"
    /\ ctrl_key = ""
    /\ packet_sources = EmptyMap
    /\ sources = EmptyMap
    /\ source_store = EmptyMap
    /\ notify_source = FALSE
    /\ has_notify = TRUE
    /\ wait_shutdown = FALSE
    /\ now = 1
    /\ InitPeerLayer
    /\ InitStore

NextBacklog ==
    \/ \E c \in ConnIds, s \in Sensors : ConnAccept(c, <<"piglet">>, s, TRUE)
    \/ \E c \in ConnIds : ConnSendConnected(c)
    \/ \E c \in ConnIds : ConnAcceptStream(c)
    \/ CtrlConnected(TRUE)
    \/ CtrlDisconnected(TRUE)
    \/ StreamSend
    \/ StreamRecv

SpecBacklog == InitBacklog /\ [][NextBacklog]_vars

\* C25: a connection task that has its Connected event to enqueue while the
\* channel of roster events is full can take its next step: it does not wait
\* for capacity.
C25_FullChannelDoesNotBlock ==
    \A c \in ConnIds :
        (conn_st[c] = "accepted" /\ Len(rx) = SOURCE_CHANNEL_SIZE)
            => ENABLED ConnSendConnected(c)

(***************************************************************************)
(* SpecFaults: a sub-stream is served while the store, the send stream,    *)
(* the direct-stream bus and the records themselves may fail, next to the  *)
(* handle_connection task that accepted the sub-stream. The runtime runs a *)
(* task that can take a step; the sensor and the operator are free.        *)
(***************************************************************************)

\* the steps left to a handle_connection task that serves sub-streams
ConnTask == \E c \in ConnIds : ConnDisconnected(c) \/ ConnShutdown(c)

NextFaults ==
    \/ Next
    \/ \E c \in ConnIds : RemoteClose(c)
    \/ ConnTask

SpecFaults == Init /\ [][NextFaults]_vars /\ WF_vars(ConnTask)

\* C26: when a record body does not deserialise, the dispatcher of the
\* sub-stream stops with the records it has written covered by a flush, and the
\* failing step changes nothing outside the dispatcher (the connection and the
\* other sub-streams are left as they are).
C26_DeserialiseErrorFlushes ==
    /\ [](failure = "deserialize" => (dpc = "err" /\ flushed = written))
    /\ [][failure' = "deserialize" => UNCHANGED outsideIngest]_vars

\* C27: when a store put or flush fails in the dispatcher, the error leaves the
\* dispatcher and the connection of the sensor is terminated.
C27_StorageErrorEndsConnection ==
    (failure = "storage" /\ dpc = "err") ~> (link[stream_of] = "closed")

(***************************************************************************)
(* SpecKinds: what handle_data makes of the records of one sub-stream: the *)
(* key it composes for the record kind of the sub-stream, the body it      *)
(* stores, and the message it sends on the direct-stream bus. A body is    *)
(* its serialised fields, in order; the numbers among them are             *)
(* little-endian, as bincode writes them.                                  *)
(***************************************************************************)

\* at most MaxHandled records are taken from the sub-stream
MaxHandled == 2

\* RawEventKind: a network event, the kinds with a key of their own, and a
\* host event
RecordKinds ==
    {"Conn", "Log", "PeriodicTimeSeries", "OpLog", "Packet", "Statistics", "SecuLog",
     "ProcessCreate"}

\* the bodies the sensor sends: three fields, or a truncated body
RawSamples ==
    {<<f1, f2, <<7>>>> : f1 \in {<<107>>, <<1, 0>>, <<0, 1>>},
                         f2 \in {<<>>, AsBytes("src 2")}}
        \cup {<<<<107>>>>}

\* the timestamps of the record events
KindTimes == {1, 256}

\* the value of little-endian bytes
RECURSIVE LeValue(_)
LeValue(b) == IF b = <<>> THEN 0 ELSE b[1] + 256 * LeValue(Tail(b))

\* bincode::deserialize::<Log | PeriodicTimeSeries | OpLog | Packet | Statistics
\* | SecuLog>(&raw_event): the fields of the body, by position; a body of
\* another shape is an error. name: Log::kind, PeriodicTimeSeries::id,
\* OpLog::agent_name, SecuLog::kind; number: Packet::packet_timestamp (i64),
\* Statistics::core (u32); source: SecuLog::source.
Deserialize(raw) ==
    IF Len(raw) = 3
    THEN [ok |-> TRUE, name |-> raw[1],
          number |-> LET u == LeValue(raw[1])
                     IN IF u >= TsModulus \div 2 THEN u - TsModulus ELSE u,
          core |-> LeValue(raw[1]),
          source |-> raw[2], contents |-> raw[3]]
    ELSE [ok |-> FALSE, name |-> <<>>, number |-> 0, core |-> 0,
          source |-> <<>>, contents |-> <<>>]

\* the kinds whose body handle_data deserialises
Deserialised(kind) ==
    kind \in {"Log", "PeriodicTimeSeries", "OpLog", "Packet", "Statistics", "SecuLog"}

\* RecordKey with the source before the agent in the key of an op log.
RecordKeySourceFirst(kind, source, timestamp, raw) ==
    LET d == Deserialize(raw)
    IN IF kind = "OpLog"
       THEN AsBytes(source) \o <<64>> \o d.name \o <<0>> \o ToBeBytes(timestamp)
       ELSE AsBytes(source) \o <<0>> \o ToBeBytes(timestamp)

\* the key_builder of handle_data for each RawEventKind, built
RecordKey(kind, source, timestamp, raw) ==
    LET d == Deserialize(raw)
        start == AsBytes(source)
        u32_be == <<(d.core \div 16777216) % 256, (d.core \div 65536) % 256,
                    (d.core \div 256) % 256, d.core % 256>>
    IN CASE kind = "Log" ->
              KeyPrefix(start, SomeKey(d.name)) \o <<0>> \o ToBeBytes(timestamp)
         [] kind = "PeriodicTimeSeries" ->
              KeyPrefix(d.name, NoKey) \o <<0>> \o ToBeBytes(timestamp)
         [] kind = "OpLog" ->
              KeyPrefix(d.name \o <<64>> \o start, NoKey) \o <<0>> \o ToBeBytes(timestamp)
         [] kind = "Packet" ->
              KeyPrefix(start, SomeKey(ToBeBytes(timestamp))) \o <<0>> \o ToBeBytes(d.number)
         [] kind = "Statistics" ->
              KeyPrefix(start, SomeKey(u32_be)) \o <<0>> \o ToBeBytes(timestamp)
         [] kind = "SecuLog" ->
              KeyPrefix(d.name, NoKey) \o <<0>> \o ToBeBytes(timestamp)
         [] OTHER ->
              KeyPrefix(start, NoKey) \o <<0>> \o ToBeBytes(timestamp)

\* Rewritten with the body stored as it came.
RewrittenAsSent(kind, source, raw) == raw

\* secu_log.source = source.clone(); raw_event = bincode::serialize(&secu_log)?
\* and for the other kinds the body as it came
Rewritten(kind, source, raw) ==
    IF kind = "SecuLog"
    THEN LET secu_log == [Deserialize(raw) EXCEPT !.source = AsBytes(source)]
         IN <<secu_log.name, secu_log.source, secu_log.contents>>
    ELSE raw

\* handle_request: the kinds handle_data is given Some(NetworkKey::new(..)) for
HasNetworkKey(kind) == kind \in {"Conn", "Log"}

\* Publishes with the record sent whether or not the store took it.
PublishesAnyway(stage) == stage \in {"appended", "append_err"}

\* store.append(..)?; if let Some(network_key) = .. { send_direct_stream(..) }
Publishes(stage) == stage = "appended"

\* the last record taken is done with, and no error has ended the dispatcher
NextRecord ==
    IF handled = <<>>
    THEN TRUE
    ELSE \/ handled[Len(handled)].stage = "published"
         \/ handled[Len(handled)].stage = "appended" /\ ~HasNetworkKey(sub.kind)

\* handle_data, Ok((raw_event, timestamp)): the key, the body and store.append
HandleAppend(timestamp, raw, appendOk) ==
    /\ NextRecord
    /\ Len(handled) < MaxHandled
    /\ IF Deserialised(sub.kind) /\ ~Deserialize(raw).ok
       THEN /\ handled' = Append(handled, [ts |-> timestamp, raw |-> raw, key |-> <<>>,
                                           value |-> raw, stage |-> "deserialize_err"])
            /\ UNCHANGED cf_db
       ELSE LET key == RecordKey(sub.kind, sub.source, timestamp, raw)
                value == Rewritten(sub.kind, sub.source, raw)
            IN /\ handled' = Append(handled,
                                [ts |-> timestamp, raw |-> raw, key |-> key, value |-> value,
                                 stage |-> IF appendOk THEN "appended" ELSE "append_err"])
               /\ cf_db' = IF appendOk THEN Put(cf_db, key, value) ELSE cf_db
    /\ UNCHANGED <<outsideStore, conn_db, packet_db, ingested, iter, retainVars, sub, bus>>

\* send_direct_stream: the raw bytes of record n of the sub-stream go to the
\* subscribers registered under (sensor, protocol) and (all, protocol)
send_direct_stream(protocol, raw_event, timestamp, source, n) ==
    Append(bus, [n |-> n, source |-> source, protocol |-> protocol, ts |-> timestamp,
                 raw_event |-> raw_event])

\* if let Some(network_key) = network_key.as_ref() { send_direct_stream(..).await?; }
HandlePublish(sendOk) ==
    /\ handled # <<>>
    /\ Publishes(handled[Len(handled)].stage)
    /\ HasNetworkKey(sub.kind)
    /\ handled' = [handled EXCEPT ![Len(handled)].stage =
                       IF sendOk THEN "published" ELSE "publish_err"]
    /\ bus' = IF sendOk
              THEN send_direct_stream(sub.kind, handled[Len(handled)].value,
                                      handled[Len(handled)].ts, sub.source, Len(handled))
              ELSE bus
    /\ UNCHANGED <<outsideStore, conn_db, packet_db, ingested, iter, retainVars, sub, cf_db>>

\* handle_request has read the record kind of a sub-stream of a sensor
InitKinds ==
    /\ InitIngest
    /\ stream_len = MaxHandled
    /\ InitOutside
    /\ InitPeerLayer
    /\ InitFamilies
    /\ sub \in [kind : RecordKinds, source : StoreSensors]

NextKinds ==
    \/ \E t \in KindTimes, raw \in RawSamples, ok \in BOOLEAN : HandleAppend(t, raw, ok)
    \/ \E ok \in BOOLEAN : HandlePublish(ok)

SpecKinds == InitKinds /\ [][NextKinds]_vars

\* the records the store has taken
Stored == {i \in DOMAIN handled : handled[i].stage \in {"appended", "published", "publish_err"}}

\* segments joined by a single NUL
RECURSIVE Segments(_)
Segments(segs) ==
    IF Len(segs) = 1 THEN segs[1] ELSE segs[1] \o <<0>> \o Segments(Tail(segs))

\* the key layout tabulated for a record kind
Tabulated(kind, sensor, ts, d) ==
    CASE kind = "Log" -> Segments(<<sensor, d.name, ToBeBytes(ts)>>)
      [] kind = "PeriodicTimeSeries" -> Segments(<<d.name, ToBeBytes(ts)>>)
      [] kind = "OpLog" -> Segments(<<d.name \o <<64>> \o sensor, ToBeBytes(ts)>>)
      [] kind = "Packet" -> Segments(<<sensor, ToBeBytes(ts), ToBeBytes(d.number)>>)
      [] kind = "Statistics" ->
           Segments(<<sensor, <<0, 0, d.core \div 256, d.core % 256>>, ToBeBytes(ts)>>)
      [] kind = "SecuLog" -> Segments(<<d.name, ToBeBytes(ts)>>)
      [] OTHER -> Segments(<<sensor, ToBeBytes(ts)>>)

\* C28: the key of every stored record has the layout tabulated for its kind,
\* with the record timestamp as big-endian bytes, and the record is in the
\* column family under that key.
C28_KeyLayoutPerKind ==
    \A i \in Stored :
        /\ handled[i].key = Tabulated(sub.kind, AsBytes(sub.source), handled[i].ts,
                                      Deserialize(handled[i].raw))
        /\ handled[i].key \in DOMAIN cf_db

\* records of the kinds with a middle segment or a leading segment of their
\* own were stored
C28_Witness ==
    /\ Stored # {}
    /\ sub.kind \in {"OpLog", "Packet", "Statistics"}
    /\ Len(handled[1].key) > Len(AsBytes(sub.source)) + 1 + TsBytes

\* C29: the sensor field of the stored body of a security-log record is the
\* sensor name of the connection, whatever the sender put there: the stored
\* body is the one every record that differs in that field alone would give.
C29_SensorFieldIsInjected ==
    sub.kind = "SecuLog" =>
        \A i \in Stored :
            /\ Deserialize(handled[i].value).source = AsBytes(sub.source)
            /\ cf_db[handled[i].key] \in {handled[j].value : j \in Stored}
            /\ \A f \in {<<>>, AsBytes("src 1"), AsBytes("src 2")} :
                   Rewritten(sub.kind, sub.source, [handled[i].raw EXCEPT ![2] = f])
                       = handled[i].value

\* a security-log record that names another sensor, or none, was stored
C29_Witness ==
    /\ sub.kind = "SecuLog"
    /\ \E i \in Stored : Deserialize(handled[i].raw).source # AsBytes(sub.source)

\* C30: a message is sent on the direct-stream bus only for a record the store
\* has taken, and only on a sub-stream whose kind has a network key; a record
\* whose write failed is never published.
C30_PublishedAfterStored ==
    /\ [](\A k \in DOMAIN bus :
              /\ bus[k].n \in Stored
              /\ bus[k].raw_event = handled[bus[k].n].value
              /\ HasNetworkKey(sub.kind))
    /\ [][bus' # bus =>
              /\ handled[Len(handled)].stage = "appended"
              /\ handled[Len(handled)].key \in DOMAIN cf_db
              /\ bus' = Append(bus, bus'[Len(bus')])
              /\ bus'[Len(bus')].n = Len(handled)]_vars
    /\ [](\A i \in DOMAIN handled :
              handled[i].stage = "append_err" => \A k \in DOMAIN bus : bus[k].n # i)

\* a record was published, and the write of the next one failed
C30_Witness ==
    /\ Len(bus) = 1
    /\ Len(handled) = 2
    /\ handled[2].stage = "append_err"

(***************************************************************************)
(* SpecFrames: the send stream of one sub-stream. The dispatcher sends the *)
(* acks of the rotation trigger and of the sentinel, the interval task     *)
(* those of its ticks; each takes the Mutex<SendStream> for the time of    *)
(* one send_ack_timestamp. write_all hands the frame to the stream in one  *)
(* or more parts and suspends between them while the stream takes no more. *)
(***************************************************************************)

\* a frame of TIMESTAMP_SIZE bytes goes to the stream in at most FrameParts parts
FrameParts == 2

\* at most MaxFrames ack frames are started on the sub-stream
MaxFrames == 3

\* the timestamps the acks of the model carry
FrameTimes == {CHANNEL_CLOSE_TIMESTAMP, 1, 2}

Tasks == {"dispatcher", "handler"}

Started == Cardinality({i \in DOMAIN frame_out : frame_out[i].part = 1})

\* the dispatcher reaches send_ack_timestamp(&mut (*sender_rotation.lock().await), ..)
\* of the sentinel or of the rotation trigger; the interval task reaches its own
\* after a tick that loaded the timestamp
AckDue(task, ts) ==
    /\ writer[task].pc = "idle"
    /\ Started + Cardinality({t \in Tasks : writer[t].pc = "lock"}) < MaxFrames
    /\ task = "handler" => ts # CHANNEL_CLOSE_TIMESTAMP
    /\ writer' = [writer EXCEPT ![task] = [pc |-> "lock", ts |-> ts, part |-> 0]]
    /\ UNCHANGED <<ingestVars, sensorVars, rosterVars, peerVars, storeVars, send_lock, frame_out>>

\* sender.lock().await: the task goes on when the mutex is free
FrameLock(task) ==
    /\ writer[task].pc = "lock"
    /\ send_lock = "free"
    /\ send_lock' = task
    /\ writer' = [writer EXCEPT ![task].pc = "write"]
    /\ UNCHANGED <<ingestVars, sensorVars, rosterVars, peerVars, storeVars, frame_out>>

\* frame::send_bytes(send, &timestamp.to_be_bytes()).await: the next part of the
\* frame, or with `rest` all that is left of it; after the last part the
\* statement ends and the guard is dropped
FrameWrite(task, rest) ==
    /\ writer[task].pc = "write"
    /\ LET first == writer[task].part + 1
           last == IF rest THEN FrameParts ELSE first
           parts == [k \in 1..(last - first + 1) |->
                        [by |-> task, ts |-> writer[task].ts, part |-> first + k - 1]]
       IN /\ frame_out' = frame_out \o parts
          /\ IF last = FrameParts
             THEN /\ writer' = [writer EXCEPT ![task] = Idle]
                  /\ send_lock' = "free"
             ELSE /\ writer' = [writer EXCEPT ![task].part = last]
                  /\ UNCHANGED send_lock
    /\ UNCHANGED <<ingestVars, sensorVars, rosterVars, peerVars, storeVars>>

\* handler.abort() and the return of handle_data (the end of the stream,
\* shutdown, a read error): the interval task is dropped where it is suspended,
\* the guard it holds with it
DispatcherReturns ==
    /\ writer["dispatcher"].pc = "idle"
    /\ writer["handler"].pc # "cancelled"
    /\ writer' = [writer EXCEPT !["dispatcher"].pc = "returned",
                                !["handler"] = [Idle EXCEPT !.pc = "cancelled"]]
    /\ send_lock' = IF send_lock = "handler" THEN "free" ELSE send_lock
    /\ UNCHANGED <<ingestVars, sensorVars, rosterVars, peerVars, storeVars, frame_out>>

InitFrames ==
    /\ InitIngest
    /\ stream_len = 0
    /\ InitOutside
    /\ InitPeerLayer
    /\ InitStore

NextFrames ==
    \/ \E task \in Tasks, ts \in FrameTimes : AckDue(task, ts)
    \/ \E task \in Tasks : FrameLock(task)
    \/ \E task \in Tasks, rest \in BOOLEAN : FrameWrite(task, rest)
    \/ DispatcherReturns

SpecFrames == InitFrames /\ [][NextFrames]_vars

\* the parts from position i on are whole frames, each written by one task
\* without a part of another frame between its parts, up to a last frame that
\* its task is still writing
RECURSIVE WholeFrom(_)
WholeFrom(i) ==
    IF i > Len(frame_out)
    THEN TRUE
    ELSE /\ frame_out[i].part = 1
         /\ LET n == Len(frame_out) - i + 1
                same(k) == /\ frame_out[i + k - 1].by = frame_out[i].by
                           /\ frame_out[i + k - 1].ts = frame_out[i].ts
                           /\ frame_out[i + k - 1].part = k
            IN IF n >= FrameParts
               THEN (\A k \in 1..FrameParts : same(k)) /\ WholeFrom(i + FrameParts)
               ELSE /\ \A k \in 1..n : same(k)
                    /\ writer[frame_out[i].by].pc = "write"
                    /\ writer[frame_out[i].by].part = n

\* C31: at most one task writes to the send stream at a time, and the stream
\* holds whole ack frames only, none with a part of another frame inside it and
\* none cut short.
C31_AckFramesWhole ==
    /\ Cardinality({t \in Tasks : writer[t].pc = "write"}) <= 1
    /\ WholeFrom(1)

\* what the mutex gives: the parts of two frames never alternate
FramesDoNotInterleave ==
    \A i \in 1..(Len(frame_out) - 1) :
        frame_out[i].part < FrameParts =>
            /\ frame_out[i + 1].by = frame_out[i].by
            /\ frame_out[i + 1].part = frame_out[i].part + 1

(***************************************************************************)
(* SpecTicks: the periodic tasks of the engine, the retention sweeper and  *)
(* the roster controller, while records are stored and the operator shuts  *)
(* the engine down.                                                        *)
(***************************************************************************)
NextTicks ==
    \/ NextRetain
    \/ \E failed \in SUBSET Sensors : CtrlTick(failed)
    \/ SetShutdown

SpecTicks == InitRetain /\ [][NextTicks]_vars

\* C32: once the shutdown signal is set, the retention sweeper and the roster
\* controller find it at their next tick and stop: no tick after the signal
\* sweeps the store or refreshes the roster.
C32_TicksStopOnShutdown ==
    [][shutdown_signal =>
           /\ ~(\E standard_duration \in Cutoffs : RetainSweep(standard_duration))
           /\ ~(\E failed \in SUBSET Sensors : CtrlTick(failed))]_vars

(***************************************************************************)
(* The interval task and the ack protocol under every interleaving.        *)
(***************************************************************************)

\* C33: when the dispatcher has returned, with or without an error, its interval
\* task has been aborted, and no ack is written on the sub-stream from then on.
C33_NoAckAfterExit ==
    /\ [](~Reading => handler_aborted)
    /\ [][~Reading => acks' = acks]_vars

(***************************************************************************)
(* SpecOrdered: Spec with a sensor that sends its records in the order of  *)
(* their timestamps.                                                       *)
(***************************************************************************)

\* the timestamp of r is not before that of a record sent earlier
InOrder(r) == \A t \in received : t <= r.ts

OrderedSend(r) == InOrder(r) /\ SensorSend(r)

NextOrdered ==
    \/ \E r \in DataRecords : OrderedSend(r)
    \/ SensorSentinel
    \/ SensorFinish
    \/ SensorReset
    \/ \E ok \in BOOLEAN : RecvSentinel(ok)
    \/ \E o \in RecordOutcomes : RecvRecord(o)
    \/ \E ok \in BOOLEAN : RecvFinished(ok)
    \/ \E ok \in BOOLEAN : RecvError(ok)
    \/ CountRecord
    \/ StoreTime
    \/ \E ok \in BOOLEAN : CheckRotation(ok)
    \/ \E ok \in BOOLEAN : RotSend(ok)
    \/ RotReset
    \/ RotNotify
    \/ \E ok \in BOOLEAN : RotFlush(ok)
    \/ HandlerTick
    \/ \E ok \in BOOLEAN : HandlerSend(ok)
    \/ HandlerReset
    \/ HandlerNotified
    \/ HandlerCancelled
    \/ SetShutdown

SpecOrdered == Init /\ [][NextOrdered]_vars

\* C34: on a sub-stream whose records arrive in the order of their timestamps,
\* no ack is written that carries a timestamp before that of an earlier ack,
\* the acks of sentinels left out, however the dispatcher and the interval
\* task interleave.
C34_OrderedAcksMonotone ==
    [][(AckEmitted /\ NewAck # CHANNEL_CLOSE_TIMESTAMP) =>
           \A i \in DOMAIN acks :
               acks[i] # CHANNEL_CLOSE_TIMESTAMP => acks[i] <= NewAck]_vars

\* the timestamps written after the record the most recent non-sentinel ack
\* acknowledged, on a sub-stream whose records arrive in order
AfterLastAck ==
    LET sent_acks == NonSentinel(acks)
    IN IF sent_acks = <<>>
       THEN written
       ELSE {t \in written : t > sent_acks[Len(sent_acks)]}

\* C35: between two records the rotation counter is at least the number of
\* records written after the record the most recent non-sentinel ack
\* acknowledged, however the dispatcher and the interval task interleave.
C35_CounterCoversUnacked ==
    dpc = "recv" => ack_cnt >= Cardinality(AfterLastAck)

\* C36: every ack that is not a sentinel's carries the timestamp of a record
\* that was appended to the store before the ack was written: none is written
\* while no record is stored, and none for a record whose append failed.
C36_AcksAreOfStoredRecords ==
    /\ [][(AckEmitted /\ NewAck # CHANNEL_CLOSE_TIMESTAMP) => NewAck \in written]_vars
    /\ [](written = {} => NonSentinel(acks) = <<>>)

\* an ack was written on a sub-stream on which the append of a record failed
C36_Witness ==
    /\ NonSentinel(acks) # <<>>
    /\ failure = "storage"
    /\ received \ written # {}

(***************************************************************************)
(* SpecEnds: A dials B while a sensor connects to B; B broadcasts its      *)
(* source list, either engine may close the connection, and the            *)
(* handle_request task of a stream runs beside the loop that accepted it.  *)
(***************************************************************************)
\* a handle_request task that has received an UpdateSourceList message
SourcesHandler(remote_addr, list) == [pc |-> "sources", data |-> list, remote |-> remote_addr]

\* stream = connection.accept_bi() => Ok: handle_request is spawned for the
\* stream and receive_peer_data returns the UpdateSourceList message
AcceptSources(k, role, m) ==
    /\ ppc[k][role] = "loop"
    /\ pconn[k] = "open"
    /\ m \in inbox[k][role]
    /\ m.type = UpdateSourceList
    /\ inbox' = [inbox EXCEPT ![k][role] = @ \ {m}]
    /\ handlers' = [handlers EXCEPT ![Owner(k, role)] =
                       @ \cup {SourcesHandler(Remote(k, role), m.list)}]
    /\ UNCHANGED <<outsidePeer, dialVars, peer_list, peer_conn, peer_sources, pconn, ppc, req,
                   resp, rcv, dial_queue, config_peers, snap, updating, write_err>>

\* handle_request, PeerCode::UpdateSourceList: update_to_new_source_list
\* inserts the list under the remote address, and the task returns Ok(())
HandlerSources(e, h) ==
    /\ h \in handlers[e]
    /\ h.pc = "sources"
    /\ peer_sources' = [peer_sources EXCEPT ![e] = Put(@, h.remote, h.data)]
    /\ handlers' = [handlers EXCEPT ![e] = @ \ {h}]
    /\ UNCHANGED <<outsidePeer, dialVars, peer_list, peer_conn, pconn, ppc, req, resp, rcv,
                   dial_queue, config_peers, snap, updating, inbox, write_err>>

NextEnds ==
    \/ SensorConnects
    \/ \E c \in ConnIds : ConnSendConnected(c)
    \/ \E ok \in BOOLEAN : CtrlConnected(ok)
    \/ \E k \in FirstConnIds : ClientConnect(k)
    \/ \E k \in FirstConnIds, r \in Roles : CheckDuplicate(k, r)
    \/ \E k \in FirstConnIds : ClientRequest(k)
    \/ \E k \in FirstConnIds : ServerRespond(k)
    \/ \E k \in FirstConnIds : ClientReceive(k)
    \/ \E k \in FirstConnIds, r \in Roles : UpdateLists(k, r)
    \/ \E k \in FirstConnIds, r \in Roles : SnapshotPeers(k, r)
    \/ \E k \in FirstConnIds, r \in Roles : WriteConfig(k, r, TRUE)
    \/ \E k \in FirstConnIds, r \in Roles : ShareLists(k, r)
    \/ \E k \in FirstConnIds, r \in Roles : InsertConn(k, r)
    \/ \E k \in FirstConnIds, r \in Roles : SourceBroadcast(k, r)
    \/ \E k \in FirstConnIds, r \in Roles : \E m \in inbox[k][r] : AcceptSources(k, r, m)
    \/ \E e \in Engines : \E h \in handlers[e] : HandlerSources(e, h)
    \/ \E k \in FirstConnIds, r \in Roles : PeerShutdown(k, r)
    \/ \E k \in FirstConnIds, r \in Roles : LoopClosed(k, r)

SpecEnds == InitPeerSpec /\ [][NextEnds]_vars

\* the task of connection k in the given role has returned after an error of
\* the initial exchange or of accept_bi, and no task of its engine is left
TaskEnded(k, role) ==
    /\ ppc[k][role] = "done"
    /\ handlers[Owner(k, role)] = {}

\* C37: once the task of a peer connection has returned, its engine being up,
\* and every handle_request task spawned for the connection has finished, the
\* peer-source map of the engine holds no entry for the remote peer.
C37_NoSourcesAfterEnd ==
    \A k \in FirstConnIds, r \in Roles :
        TaskEnded(k, r) => Remote(k, r) \notin DOMAIN peer_sources[Owner(k, r)]

(***************************************************************************)
(* SpecLearn: A and the third engine dial B at the same time, and both     *)
(* send a peer list that holds A, which B does not know. The loop of       *)
(* update_to_new_peer_list is taken lock by lock: the read of peer_list,   *)
(* the write to it and the send to Peer::run are steps of their own.       *)
(***************************************************************************)
\* the list the third engine sends when it knows A
SharedLists == {{"C", "A"}}

LearnPcs == {"learn_check", "learn_insert", "learn_send"}

\* update_to_new_source_list, and the entry of update_to_new_peer_list:
\* is_change = false and the loop over recv_peer_list begins
LearnStart(k, role) ==
    /\ ppc[k][role] = "update"
    /\ peer_sources' = [peer_sources EXCEPT ![Owner(k, role)] =
                           Put(@, Remote(k, role), rcv[k][role].sources)]
    /\ updating' = [updating EXCEPT ![k][role] =
                       [recv_peer_list |-> rcv[k][role].list, recv_peer_info |-> "",
                        is_change |-> FALSE]]
    /\ ppc' = SetPc(k, role, "learn_check")
    /\ UNCHANGED <<outsidePeer, dialVars, peer_list, peer_conn, pconn, req, resp, rcv,
                   dial_queue, config_peers, snap, inbox, handlers, write_err>>

\* for recv_peer_info in recv_peer_list: local_address.ip() !=
\* recv_peer_info.address.ip() && !peer_list.read().await.contains(..); the
\* read guard is dropped with the condition, and is_change = true
LearnCheck(k, role, p) ==
    /\ ppc[k][role] = "learn_check"
    /\ p \in updating[k][role].recv_peer_list
    /\ LET e == Owner(k, role)
           rest == updating[k][role].recv_peer_list \ {p}
       IN IF IpOf(p) # IpOf(e) /\ p \notin peer_list[e]
          THEN /\ updating' = [updating EXCEPT ![k][role] =
                                  [recv_peer_list |-> rest, recv_peer_info |-> p,
                                   is_change |-> TRUE]]
               /\ ppc' = SetPc(k, role, "learn_insert")
          ELSE /\ updating' = [updating EXCEPT ![k][role].recv_peer_list = rest]
               /\ UNCHANGED ppc
    /\ UNCHANGED <<outsidePeer, dialVars, peer_list, peer_conn, peer_sources, pconn, req, resp,
                   rcv, dial_queue, config_peers, snap, inbox, handlers, write_err>>

\* peer_list.write().await.insert(recv_peer_info.clone())
LearnInsert(k, role) ==
    /\ ppc[k][role] = "learn_insert"
    /\ peer_list' = [peer_list EXCEPT ![Owner(k, role)] =
                        @ \cup {updating[k][role].recv_peer_info}]
    /\ ppc' = SetPc(k, role, "learn_send")
    /\ UNCHANGED <<outsidePeer, dialVars, peer_conn, peer_sources, pconn, req, resp, rcv,
                   gossipVars>>

\* sender.send(recv_peer_info).await?: the channel of Peer::run holds 100
\* values and is not full
LearnSend(k, role) ==
    /\ ppc[k][role] = "learn_send"
    /\ dial_queue' = [dial_queue EXCEPT ![Owner(k, role)] =
                         @ (+) SetToBag({updating[k][role].recv_peer_info})]
    /\ ppc' = SetPc(k, role, "learn_check")
    /\ UNCHANGED <<outsidePeer, dialVars, peer_list, peer_conn, peer_sources, pconn, req, resp,
                   rcv, config_peers, snap, updating, inbox, handlers, write_err>>

\* the loop is over: if is_change the configuration document is written
LearnDone(k, role) ==
    /\ ppc[k][role] = "learn_check"
    /\ updating[k][role].recv_peer_list = {}
    /\ ppc' = SetPc(k, role, IF updating[k][role].is_change THEN "snapshot" ELSE "share")
    /\ updating' = [updating EXCEPT ![k][role] = NoUpdate]
    /\ UNCHANGED <<outsidePeer, dialVars, peer_list, peer_conn, peer_sources, pconn, req, resp,
                   rcv, dial_queue, config_peers, snap, inbox, handlers, write_err>>

NextLearn ==
    \/ \E k \in FirstConnIds : ClientConnect(k)
    \/ \E k \in ThirdConnIds : ThirdConnect(k)
    \/ \E k \in ThirdConnIds, l \in SharedLists : ThirdRequest(k, l)
    \/ \E k \in ServedConnIds, r \in Roles : CheckDuplicate(k, r)
    \/ \E k \in FirstConnIds : ClientRequest(k)
    \/ \E k \in ServedConnIds : ServerRespond(k)
    \/ \E k \in FirstConnIds : ClientReceive(k)
    \/ \E k \in ServedConnIds, r \in Roles : LearnStart(k, r)
    \/ \E k \in ServedConnIds, r \in Roles, p \in PeerNames : LearnCheck(k, r, p)
    \/ \E k \in ServedConnIds, r \in Roles : LearnInsert(k, r)
    \/ \E k \in ServedConnIds, r \in Roles : LearnSend(k, r)
    \/ \E k \in ServedConnIds, r \in Roles : LearnDone(k, r)
    \/ \E k \in ServedConnIds, r \in Roles : SnapshotPeers(k, r)
    \/ \E k \in ServedConnIds, r \in Roles : WriteConfig(k, r, TRUE)
    \/ \E k \in ServedConnIds, r \in Roles : ShareLists(k, r)
    \/ \E k \in ServedConnIds, r \in Roles : InsertConn(k, r)

SpecLearn == InitGossip /\ [][NextLearn]_vars

\* the peers an engine has learned through gossip: those of its peer list
\* that its configuration did not name
Gossiped(e) == peer_list[e] \ (IF e = "A" THEN {"B"} ELSE {})

\* no task of engine e is inside the loop of update_to_new_peer_list
LoopsFinished(e) ==
    \A k \in ServedConnIds, r \in Roles : Owner(k, r) = e => ppc[k][r] \notin LearnPcs

\* C38: when the loops of update_to_new_peer_list of an engine have finished,
\* the dial channel has received exactly one request for every peer the
\* engine learned through gossip, and none for any other peer, whichever way
\* the tasks of its connections interleaved.
C38_OneDialPerLearnedPeer ==
    \A e \in Engines :
        LoopsFinished(e) =>
            \A p \in PeerNames :
                CopiesIn(p, dial_queue[e]) = (IF p \in Gossiped(e) THEN 1 ELSE 0)

(***************************************************************************)
(* SpecLists: A dials B while two sensors connect to B one after the       *)
(* other, so that B broadcasts a source list and then a longer one. Each   *)
(* list is sent by a task of its own on a stream of its own and applied by *)
(* a handle_request task of its own.                                       *)
(***************************************************************************)
\* a second sensor connects to B: handle_connection of its connection
SecondSensorConnects == ConnAccept(2, <<"piglet">>, "src 2", TRUE)

NextLists ==
    \/ SensorConnects
    \/ SecondSensorConnects
    \/ \E c \in ConnIds : ConnSendConnected(c)
    \/ \E ok \in BOOLEAN : CtrlConnected(ok)
    \/ \E k \in FirstConnIds : ClientConnect(k)
    \/ \E k \in FirstConnIds, r \in Roles : CheckDuplicate(k, r)
    \/ \E k \in FirstConnIds : ClientRequest(k)
    \/ \E k \in FirstConnIds : ServerRespond(k)
    \/ \E k \in FirstConnIds : ClientReceive(k)
    \/ \E k \in FirstConnIds, r \in Roles : UpdateLists(k, r)
    \/ \E k \in FirstConnIds, r \in Roles : SnapshotPeers(k, r)
    \/ \E k \in FirstConnIds, r \in Roles : WriteConfig(k, r, TRUE)
    \/ \E k \in FirstConnIds, r \in Roles : ShareLists(k, r)
    \/ \E k \in FirstConnIds, r \in Roles : InsertConn(k, r)
    \/ \E k \in FirstConnIds, r \in Roles : SourceBroadcast(k, r)
    \/ \E k \in FirstConnIds, r \in Roles : \E m \in inbox[k][r] : AcceptSources(k, r, m)
    \/ \E e \in Engines : \E h \in handlers[e] : HandlerSources(e, h)

SpecLists == InitPeerSpec /\ [][NextLists]_vars

\* C39: the roster of B only grows here, so of two lists B has sent the later
\* one holds the earlier one; the entry A keeps for B is never replaced by a
\* list B sent before the list the entry holds.
C39_LaterListStays ==
    [][("B" \in DOMAIN peer_sources["A"] /\ "B" \in DOMAIN peer_sources'["A"])
          => peer_sources["A"]["B"] \subseteq peer_sources'["A"]["B"]]_vars

(***************************************************************************)
(* SpecRedial: the two engines connect to each other, and an established   *)
(* connection ends: closed by the application at the other end, or lost    *)
(* with another error of the connection.                                   *)
(***************************************************************************)
\* the connection between two tasks in their loops fails with an error other
\* than ApplicationClosed (timed out, reset, ..)
ConnLost(k) ==
    /\ pconn[k] = "open"
    /\ ppc[k]["client"] = "loop"
    /\ ppc[k]["server"] = "loop"
    /\ dials[k] < MaxDials
    /\ pconn' = [pconn EXCEPT ![k] = "lost"]
    /\ UNCHANGED <<outsidePeer, dialVars, peer_list, peer_conn, peer_sources, ppc, req, resp,
                   rcv, gossipVars>>

\* LoopError with a client task that returns as the server task does
LoopErrorEnds(k, role) ==
    /\ ppc[k][role] = "loop"
    /\ pconn[k] = "lost"
    /\ peer_conn' = [peer_conn EXCEPT ![Owner(k, role)] = Remove(@, Remote(k, role))]
    /\ peer_sources' = [peer_sources EXCEPT ![Owner(k, role)] = Remove(@, Remote(k, role))]
    /\ ppc' = SetPc(k, role, "done")
    /\ UNCHANGED <<outsidePeer, dialVars, peer_list, pconn, req, resp, rcv, gossipVars>>

\* stream = connection.accept_bi() => Err(e) with an error that is not
\* ApplicationClosed: the entries of the remote host are removed; the client
\* task goes on with `continue 'connection`, the server task returns Err.
LoopError(k, role) ==
    /\ ppc[k][role] = "loop"
    /\ pconn[k] = "lost"
    /\ peer_conn' = [peer_conn EXCEPT ![Owner(k, role)] = Remove(@, Remote(k, role))]
    /\ peer_sources' = [peer_sources EXCEPT ![Owner(k, role)] = Remove(@, Remote(k, role))]
    /\ ppc' = SetPc(k, role, IF role = "client" THEN "spawned" ELSE "done")
    /\ UNCHANGED <<outsidePeer, dialVars, peer_list, pconn, req, resp, rcv, gossipVars>>

\* connect() at the head of 'connection after a lost connection: a new
\* connection with new streams, for which the acceptor spawns
\* server_connection once the task of the lost connection has returned
Redial(k) ==
    /\ ppc[k]["client"] = "spawned"
    /\ pconn[k] = "lost"
    /\ ppc[k]["server"] = "done"
    /\ pconn' = [pconn EXCEPT ![k] = "open"]
    /\ ppc' = [ppc EXCEPT ![k] = [client |-> "check", server |-> "check"]]
    /\ dials' = [dials EXCEPT ![k] = @ + 1]
    /\ req' = [req EXCEPT ![k] = NoMsg]
    /\ resp' = [resp EXCEPT ![k] = NoMsg]
    /\ inbox' = [inbox EXCEPT ![k] = [r \in Roles |-> {}]]
    /\ UNCHANGED <<outsidePeer, peer_list, peer_conn, peer_sources, rcv, dial_queue,
                   config_peers, snap, updating, handlers, write_err, dial_err, slept>>

NextRedial ==
    \/ NextPeer
    \/ \E k \in PeerConnIds : ConnLost(k)
    \/ \E k \in PeerConnIds, r \in Roles : LoopError(k, r)
    \/ \E k \in PeerConnIds : Redial(k)

SpecRedial == InitPeerSpec /\ [][NextRedial]_vars

\* the client task of connection k leaves its loop by the error branch of
\* accept_bi in this step
ClientLoopEnds(k) ==
    /\ ppc[k]["client"] = "loop"
    /\ ppc'[k]["client"] \notin {"loop", "shutdown"}

\* C40: when accept_bi of a client task fails, the task removes the remote
\* host from peer_conn and from peer_sources; after ApplicationClosed it has
\* returned and never calls connect() again, after any other error it is at
\* the head of 'connection, where it calls connect() for the same peer.
C40_ClientEndOfConnection ==
    [][\A k \in PeerConnIds :
          /\ ClientLoopEnds(k)
                => /\ Acceptor(k) \notin DOMAIN peer_conn'[Dialer(k)]
                   /\ Acceptor(k) \notin DOMAIN peer_sources'[Dialer(k)]
                   /\ pconn[k] = "closed" => ppc'[k]["client"] = "done"
                   /\ pconn[k] # "closed" => ppc'[k]["client"] = "spawned"
          /\ ppc[k]["client"] = "done" => (dials'[k] = dials[k] /\ ppc'[k]["client"] = "done")
          /\ (ppc[k]["client"] = "spawned" /\ pconn[k] = "lost" /\ ppc'[k]["client"] # "spawned")
                => (dials'[k] = dials[k] + 1 /\ pconn'[k] = "open")
      ]_vars

\* a client task has dialled its peer again after its connection was lost,
\* and its engine holds no entry for the peer
C40_Witness ==
    \E k \in PeerConnIds :
        /\ dials[k] = 2
        /\ pconn[k] = "open"
        /\ ppc[k]["client"] = "check"
        /\ Acceptor(k) \notin DOMAIN peer_conn[Dialer(k)]
        /\ Acceptor(k) \notin DOMAIN peer_sources[Dialer(k)]
====
